---- MODULE Spec2Model ----
(***************************************************************************)
(* Verification model of the ryohi-router gateway core:                    *)
(*   - models.RouteCollection.FindRoute / RouteConfig.Match  (route table) *)
(*   - loadbalancer.{RoundRobin,Weighted,LeastConnections,Random}          *)
(*   - models.CircuitBreaker (Call / CanExecute / RecordResult)            *)
(*   - router.Router.CreateHandler (the per-request forwarding path)       *)
(*   - models.RateLimiter / TokenBucket and the route middleware chain     *)
(*   - config.Config, the admin API handlers, Router.Reload, the main mux  *)
(*   - health.Checker (Start / Stop / probe workers)                       *)
(*   - config.Config.Validate and the Validate methods it calls            *)
(* Each subsystem has its own variables, initial condition and actions;    *)
(* a specification runs one subsystem and leaves the others idle.          *)
(***************************************************************************)
EXTENDS Integers, Sequences, FiniteSets, TLC

VARIABLES
  \* ---- route table (models.RouteCollection) ----
  routes,        \* RouteCollection.Routes: sequence of route records
  reqPath,       \* path of the last FindRoute call
  reqMethod,     \* method of the last FindRoute call
  found,         \* result of the last FindRoute call: index into routes, 0 = nil
  routePc,       \* "init" before any call, "called" after FindRoute returned,
                 \* "served" after the main mux dispatched a request
  served,        \* the route whose handler the main mux ran for the last
                 \* request: index into routes, 0 = none (404 or 405)
  \* ---- one load-balancer pool (package loadbalancer) ----
  lbAlgo,        \* LoadBalancerConfig.Algorithm the pool was built for
  endpoints,     \* the pool's endpoints: sequence of [URL, Weight, Healthy]
  weightedList,  \* Weighted.weightedList: endpoint positions, each Weight times
  current,       \* RoundRobin.current / Weighted.current (uint32)
  randomSeed,    \* package variable randomSeed (uint32)
  connections,   \* LeastConnections.connections: URL -> active count
  lbPc,          \* per goroutine: "idle", or "inNext" while inside Next holding the mutex
  lbRet,         \* per goroutine inside Next: the endpoint position it returns, 0 = nil
  lbMarked,      \* history: some MarkHealthy/MarkUnhealthy call has changed a flag
  \* ---- one circuit breaker (models.CircuitBreaker) ----
  cbConfig,             \* CircuitBreaker.config
  state,                \* CircuitBreaker.state
  consecutiveSuccesses, \* CircuitBreaker.consecutiveSuccesses
  consecutiveFailures,  \* CircuitBreaker.consecutiveFailures
  requests,             \* CircuitBreaker.requests (current interval)
  failures,             \* CircuitBreaker.failures (current interval)
  lastFailureTime,      \* CircuitBreaker.lastFailureTime (0 = zero time)
  nextAttemptTime,      \* CircuitBreaker.nextAttemptTime (0 = zero time)
  intervalStart,        \* CircuitBreaker.intervalStart
  now,                  \* the wall clock read by time.Now()
  cbPc,                 \* per caller of Call: "idle", "upgrade", "fn", "fnDirect"
  cbAdm,                \* history, per caller in fn: the CanExecute case that admitted it
  cbOp,                 \* history: the operation the last step completed
  openAdmits,           \* history: admissions through case StateOpen since the circuit last opened
  hoSuccesses,          \* history: successes recorded in Half-Open since it was last entered
  calls,                \* history: number of Call invocations so far
  \* ---- the router (router.Router) ----
  backends,      \* Router.backends: backend ID -> [Enabled, CircuitBreaker]; its
                 \* LoadBalancer is the pool above
  rtLast,        \* history: the last request handled and the response it got
  rtRequests,    \* history: requests that were forwarded to the upstream
  rtFailures,    \* history: forwarded requests answered with a status >= 500
  rtTripTime,    \* history: when the third of three failing requests failed (0 = not yet)
  \* ---- one rate limiter and the route's middleware chain ----
  rlConfig,      \* RateLimiter.config (after RateLimitConfig.Validate)
  authConfig,    \* the route's AuthConfig
  buckets,       \* RateLimiter.buckets: key -> [tokens, lastFill]; tokens are
                 \* kept multiplied by the period's length in seconds
  cleanupAt,     \* RateLimiter.cleanupAt, in seconds
  rlLog,         \* history: per key, the times (seconds) of the admitted requests
  mwLast,        \* history: the last request through the route's middleware chain
  \* ---- the configuration object, the admin API and the main mux ----
  cfgRoutes,     \* Config.Routes: sequence of [ID, Path, Backend, Enabled]
  cfgBackends,   \* Config.Backends: sequence of [ID, Algorithm, Enabled]
  muxRoutes,     \* the routes setupMainRouter registered on the main mux
  reloadOK,      \* history: a Reload has run and the last one returned nil
  pending,       \* the client request in progress: matched by the mux, handler not yet run
  admLast,       \* history: the last admin call or client request completed
                 \* (for a Reload, `kept`: backends and routes are as before it)
  admKey,        \* history: the X-API-Key header of the request admLast records
                 \* ("" when absent, as on client requests)
  \* ---- the health checker (health.Checker) ----
  hcConfig,      \* per backend of Checker.config: [Enabled, HealthCheck]
  hcCtx,         \* Checker.ctx: "none" before Start, "live", "cancelled"
  hcPc,          \* per backend, its checkBackendHealth goroutine: "none",
                 \* "initial", "probing", "select", "exited"
  tickerC,       \* per backend: the worker's ticker channel holds a tick
  statuses,      \* Checker.statuses: backend ID -> Status
  probeOK,       \* per endpoint URL: the upstream answers probes with an expected status
  hcStopped,     \* history: Stop has returned
  probeAfterStop,\* history: a probe round was started after Stop returned
  hcLast,        \* history: the last checker or pool operation completed
  hhReq,         \* the GET /health request in progress: [pc, ids], ids the
                 \* keys of the map GetAllStatuses returned to it
  \* ---- validation of the loaded configuration (Config.Validate) ----
  valCfg,        \* the Config main loaded: [Routes, Backends], durations in seconds
  valInput,      \* history: the configuration as config.Load returned it
  valResult,     \* "none" before cfg.Validate(), then "ok" (nil) or "error"
  \* ---- rotation of one pool under successive Next calls ----
  lbHist,        \* history: the positions the latest Next calls returned since
                 \* the pool's health flags last changed, oldest first
  \* ---- the RateLimit middleware and its limiter ----
  keyType,       \* RateLimitConfig.KeyType (after RateLimitConfig.Validate)
  limSeen,       \* history: the users that have made a request
  limLast,       \* history: the last call of the limiter
  \* ---- Router.Reload step by step ----
  rdPc,          \* "idle", or "init" while Reload holds the router's write lock
  rdIdx,         \* Reload's loop index over cfg.Backends (0 outside Reload)
  rdSeen,        \* history: what the last getBackend call found
  \* ---- RateLimiter.getBucket step by step ----
  gbReq,         \* per goroutine: where its Allow call is, its key, the bucket
                 \* it holds (0 = none) and whether its first look missed
  gbBuckets,     \* RateLimiter.buckets: key -> identity of its bucket (0 = none)
  gbCreated      \* history: key -> number of buckets created for it

routeVars == <<routes, reqPath, reqMethod, found, routePc, served>>
lbVars == <<lbAlgo, endpoints, weightedList, current, randomSeed, connections,
            lbPc, lbRet, lbMarked>>
cbVars == <<cbConfig, state, consecutiveSuccesses, consecutiveFailures, requests,
            failures, lastFailureTime, nextAttemptTime, intervalStart, now,
            cbPc, cbAdm, cbOp, openAdmits, hoSuccesses, calls>>
rtVars == <<backends, rtLast, rtRequests, rtFailures, rtTripTime>>
rlVars == <<rlConfig, authConfig, buckets, cleanupAt, rlLog, mwLast>>
admVars == <<cfgRoutes, cfgBackends, muxRoutes, reloadOK, pending, admLast,
             admKey>>
hcVars == <<hcConfig, hcCtx, hcPc, tickerC, statuses, probeOK, hcStopped,
            probeAfterStop, hcLast, hhReq>>
valVars == <<valCfg, valInput, valResult>>
rotVars == <<lbHist>>
limVars == <<keyType, limSeen, limLast>>
rdVars == <<rdPc, rdIdx, rdSeen>>
gbVars == <<gbReq, gbBuckets, gbCreated>>

(***************************************************************************)
(*                              ROUTE TABLE                                *)
(***************************************************************************)

\* Bound on the number of routes of a table.
MaxRoutes == 2

\* Paths and patterns are sequences of characters ("nl" is the newline
\* character, which Go's `.` does not match).
PatternSet ==
  { <<"/", "a", "/", "*">>,        \* /a/*
    <<"/", "a", "/", "s">>,        \* /a/s
    <<"/", "*", "/", "s">> }       \* /*/s   (star in the middle)

PathSet ==
  { <<"/", "a", "/", "s">>,        \* /a/s
    <<"/", "a", "/", "o">>,        \* /a/o
    <<"/", "a", "/">>,             \* /a/
    <<"/", "a", "/", "nl">>,       \* /a/<newline>
    <<"/", "b", "/", "s">>,        \* /b/s
    <<"/", "a">> }                 \* /a

MethodLists == { <<"GET">>, <<"*">> }
RequestMethods == { "GET", "POST" }
PrioritySet == { 0, 100 }

RouteConfigs ==
  [ Path : PatternSet, Method : MethodLists,
    Priority : PrioritySet, Enabled : BOOLEAN ]

RECURSIVE SeqsUpTo(_, _)
\* All sequences over S of length at most n.
SeqsUpTo(S, n) ==
  IF n = 0 THEN { <<>> }
  ELSE LET shorter == SeqsUpTo(S, n - 1)
       IN  shorter \cup { Append(s, x) : s \in shorter, x \in S }

RECURSIVE matchPath(_, _)
\* regexp "^" + QuoteMeta(pattern) with every quoted star replaced by ".*" + "$":
\* every character of the pattern is literal except "*", which matches any
\* (possibly empty) run of characters other than newline.
matchPath(pattern, path) ==
  IF pattern = <<>> THEN path = <<>>
  ELSE IF Head(pattern) = "*"
       THEN \E k \in 0..Len(path) :
              /\ \A j \in 1..k : path[j] # "nl"
              /\ matchPath(Tail(pattern), SubSeq(path, k + 1, Len(path)))
       ELSE /\ path # <<>>
            /\ Head(path) = Head(pattern)
            /\ matchPath(Tail(pattern), Tail(path))

\* The same method check with the Enabled test dropped.
MatchIgnoringEnabled(r, path, method) ==
  /\ \E i \in 1..Len(r.Method) : r.Method[i] = method \/ r.Method[i] = "*"
  /\ matchPath(r.Path, path)

\* RouteConfig.Match
Match(r, path, method) ==
  /\ r.Enabled
  /\ \E i \in 1..Len(r.Method) : r.Method[i] = method \/ r.Method[i] = "*"
  /\ matchPath(r.Path, path)

\* The comparison with >= in place of >.
IsBetterOrEqual(priority, bestPriority) == priority >= bestPriority

\* FindRoute's test `route.Priority > bestPriority`
IsBetter(priority, bestPriority) == priority > bestPriority

RECURSIVE FindRouteLoop(_, _, _, _, _, _)
\* The loop of FindRoute from position i on, with the running bestMatch
\* (an index, 0 = nil) and bestPriority.
FindRouteLoop(rs, path, method, i, bestMatch, bestPriority) ==
  IF i > Len(rs) THEN bestMatch
  ELSE IF Match(rs[i], path, method) /\ IsBetter(rs[i].Priority, bestPriority)
       THEN FindRouteLoop(rs, path, method, i + 1, i, rs[i].Priority)
       ELSE FindRouteLoop(rs, path, method, i + 1, bestMatch, bestPriority)

\* RouteCollection.FindRoute: bestMatch = nil, bestPriority = -1
FindRoute(rs, path, method) == FindRouteLoop(rs, path, method, 1, 0, -1)

RouteInit ==
  /\ routes \in SeqsUpTo(RouteConfigs, MaxRoutes)
  /\ reqPath = <<>>
  /\ reqMethod = ""
  /\ found = 0
  /\ routePc = "init"
  /\ served = 0

RouteIdle ==
  /\ routes = <<>>
  /\ reqPath = <<>>
  /\ reqMethod = ""
  /\ found = 0
  /\ routePc = "init"
  /\ served = 0

\* A call rc.FindRoute(path, method).
CallFindRoute(path, method) ==
  /\ reqPath' = path
  /\ reqMethod' = method
  /\ found' = FindRoute(routes, path, method)
  /\ routePc' = "called"
  /\ UNCHANGED <<routes, served>>

\* p is a prefix of q, character by character.
HasPrefix(q, p) == Len(p) <= Len(q) /\ SubSeq(q, 1, Len(p)) = p

\* The route the main mux picks: setupMainRouter registers, for every enabled
\* route in configuration order, PathPrefix(route.Path) with
\* Methods(route.Method...). The mux takes the first registered route that
\* matches; a PathPrefix template without braces is literal text (a "*" is
\* the character itself) and a method matches when it is one of the
\* listed strings. 0 when no route matches.
MainMuxMatch(rs, path, method) ==
  LET hit(i) == /\ rs[i].Enabled
                /\ HasPrefix(path, rs[i].Path)
                /\ \E k \in 1..Len(rs[i].Method) : rs[i].Method[k] = method
  IN  IF \E i \in 1..Len(rs) : hit(i)
      THEN CHOOSE i \in 1..Len(rs) : hit(i) /\ \A j \in 1..(i - 1) : ~hit(j)
      ELSE 0

\* A client request to the running server whose configuration holds the
\* table: the main mux dispatches it. `found` records what FindRoute returns
\* for the same path and method.
ServeRequest(path, method) ==
  /\ reqPath' = path
  /\ reqMethod' = method
  /\ served' = MainMuxMatch(routes, path, method)
  /\ found' = FindRoute(routes, path, method)
  /\ routePc' = "served"
  /\ UNCHANGED routes

(***************************************************************************)
(*                             LOAD BALANCERS                              *)
(***************************************************************************)

\* Bound on the number of endpoints of a pool.
MaxEndpoints == 2
\* The uint32 counters wrap at 2^CounterBits in the model.
CounterBits == 2
\* Cap on a least-connections active count (the code never decrements it).
MaxConn == 2

Uint32Mod == 2 ^ CounterBits

Algorithms == { "round-robin", "weighted", "least-conn", "random" }
URLs == { "u1", "u2" }
Weights == { 1, 2 }
Goroutines == { "g1", "g2" }

EndpointConfigs == [ URL : URLs, Weight : Weights, Healthy : BOOLEAN ]

\* The positions of the healthy endpoints, in configured order: the loops
\* that fill healthyEndpoints in RoundRobin.Next and Random.Next.
HealthyPositions(eps) ==
  SelectSeq([ i \in 1..Len(eps) |-> i ], LAMBDA i : eps[i].Healthy)

RECURSIVE Repeat(_, _)
\* n copies of x.
Repeat(x, n) == IF n <= 0 THEN <<>> ELSE <<x>> \o Repeat(x, n - 1)

RECURSIVE buildWeightedListAll(_, _)
\* The list built without looking at the health flags.
buildWeightedListAll(eps, i) ==
  IF i > Len(eps) THEN <<>>
  ELSE Repeat(i, eps[i].Weight) \o buildWeightedListAll(eps, i + 1)

RECURSIVE buildWeightedList(_, _)
\* Weighted.buildWeightedList from position i on: each healthy endpoint's
\* position, Weight times.
buildWeightedList(eps, i) ==
  IF i > Len(eps) THEN <<>>
  ELSE (IF eps[i].Healthy THEN Repeat(i, eps[i].Weight) ELSE <<>>)
         \o buildWeightedList(eps, i + 1)

\* atomic.AddUint32(&c, 1): the new value.
AddUint32(c) == (c + 1) % Uint32Mod

\* RoundRobin.Next: the position returned (0 = nil) and the new counter.
RoundRobinNext(eps, cur) ==
  LET healthyEndpoints == HealthyPositions(eps)
      new == AddUint32(cur)
  IN  IF Len(eps) = 0 THEN [ ret |-> 0, cur |-> cur ]
      ELSE IF Len(healthyEndpoints) = 0 THEN [ ret |-> 0, cur |-> cur ]
      ELSE [ ret |-> healthyEndpoints[(new % Len(healthyEndpoints)) + 1],
             cur |-> new ]

\* Weighted.Next
WeightedNext(wl, cur) ==
  LET new == AddUint32(cur)
  IN  IF Len(wl) = 0 THEN [ ret |-> 0, cur |-> cur ]
      ELSE [ ret |-> wl[(new % Len(wl)) + 1], cur |-> new ]

\* Random.Next (the "random" index is the package counter randomSeed)
RandomNext(eps, seed) ==
  LET healthyEndpoints == HealthyPositions(eps)
      new == AddUint32(seed)
  IN  IF Len(healthyEndpoints) = 0 THEN [ ret |-> 0, cur |-> seed ]
      ELSE [ ret |-> healthyEndpoints[(new % Len(healthyEndpoints)) + 1],
             cur |-> new ]

\* Width of the int32 active counts, scaled down.
Int32Bits == 3
\* int32(^uint32(0) >> 1): the largest int32.
MaxInt32 == 2 ^ (Int32Bits - 1) - 1

RECURSIVE LeastConnLoop(_, _, _, _, _)
\* The scan of LeastConnections.Next from position i on.
LeastConnLoop(eps, conns, i, selected, minConnections) ==
  IF i > Len(eps) THEN selected
  ELSE IF ~eps[i].Healthy
       THEN LeastConnLoop(eps, conns, i + 1, selected, minConnections)
       ELSE IF conns[eps[i].URL] < minConnections
            THEN LeastConnLoop(eps, conns, i + 1, i, conns[eps[i].URL])
            ELSE LeastConnLoop(eps, conns, i + 1, selected, minConnections)

\* LeastConnections.Next: the position returned and the new count map.
LeastConnNext(eps, conns) ==
  LET selected == LeastConnLoop(eps, conns, 1, 0, MaxInt32)
  IN  [ ret |-> selected,
        conns |-> IF selected = 0 THEN conns
                  ELSE [ conns EXCEPT ![eps[selected].URL] = @ + 1 ] ]

\* A writer that does not wait for the readers.
CanLockNoWait == TRUE

\* mutex.Lock(): granted when no goroutine holds the mutex.
CanLock == \A g \in Goroutines : lbPc[g] = "idle"

\* mutex.RLock(): writers run to completion in one step, so a reader is
\* never kept out by one.
CanRLock == TRUE

\* The first position whose URL is url, 0 when there is none: the loop
\* `for i := range endpoints { if endpoints[i].URL == endpoint.URL {...; break} }`.
FirstWithURL(eps, url) ==
  IF \E i \in 1..Len(eps) : eps[i].URL = url
  THEN CHOOSE i \in 1..Len(eps) :
         /\ eps[i].URL = url
         /\ \A j \in 1..(i - 1) : eps[j].URL # url
  ELSE 0

LBInit ==
  /\ lbAlgo \in Algorithms
  /\ endpoints \in SeqsUpTo(EndpointConfigs, MaxEndpoints)
  /\ weightedList = IF lbAlgo = "weighted" THEN buildWeightedList(endpoints, 1) ELSE <<>>
  /\ current = 0
  /\ randomSeed = 0
  /\ connections = [ u \in URLs |-> 0 ]
  /\ lbPc = [ g \in Goroutines |-> "idle" ]
  /\ lbRet = [ g \in Goroutines |-> 0 ]
  /\ lbMarked = FALSE

LBIdle ==
  /\ lbAlgo = "round-robin"
  /\ endpoints = <<>>
  /\ weightedList = <<>>
  /\ current = 0
  /\ randomSeed = 0
  /\ connections = [ u \in URLs |-> 0 ]
  /\ lbPc = [ g \in Goroutines |-> "idle" ]
  /\ lbRet = [ g \in Goroutines |-> 0 ]
  /\ lbMarked = FALSE

\* Goroutine g enters Next, takes the mutex and selects; it keeps the mutex
\* until NextReturn (defer mutex.RUnlock() / Unlock()).
NextCall(g) ==
  /\ lbPc[g] = "idle"
  /\ lbPc' = [ lbPc EXCEPT ![g] = "inNext" ]
  /\ \/ /\ lbAlgo = "round-robin"
        /\ CanRLock
        /\ LET r == RoundRobinNext(endpoints, current)
           IN  lbRet' = [ lbRet EXCEPT ![g] = r.ret ] /\ current' = r.cur
        /\ UNCHANGED <<randomSeed, connections>>
     \/ /\ lbAlgo = "weighted"
        /\ CanRLock
        /\ LET r == WeightedNext(weightedList, current)
           IN  lbRet' = [ lbRet EXCEPT ![g] = r.ret ] /\ current' = r.cur
        /\ UNCHANGED <<randomSeed, connections>>
     \/ /\ lbAlgo = "random"
        /\ CanRLock
        /\ LET r == RandomNext(endpoints, randomSeed)
           IN  lbRet' = [ lbRet EXCEPT ![g] = r.ret ] /\ randomSeed' = r.cur
        /\ UNCHANGED <<current, connections>>
     \/ /\ lbAlgo = "least-conn"
        /\ CanLock
        /\ \A u \in URLs : connections[u] < MaxConn
        /\ LET r == LeastConnNext(endpoints, connections)
           IN  lbRet' = [ lbRet EXCEPT ![g] = r.ret ] /\ connections' = r.conns
        /\ UNCHANGED <<current, randomSeed>>
  /\ UNCHANGED <<lbAlgo, endpoints, weightedList, lbMarked>>

\* Goroutine g enters LeastConnections.Next, takes the mutex and selects,
\* whatever the counts have grown to (the code never decrements them).
LeastConnectionsNextCall(g) ==
  /\ lbAlgo = "least-conn"
  /\ lbPc[g] = "idle"
  /\ CanLock
  /\ lbPc' = [ lbPc EXCEPT ![g] = "inNext" ]
  /\ LET r == LeastConnNext(endpoints, connections)
     IN  lbRet' = [ lbRet EXCEPT ![g] = r.ret ] /\ connections' = r.conns
  /\ UNCHANGED <<lbAlgo, endpoints, weightedList, current, randomSeed, lbMarked>>

\* Next returns to its caller and the deferred unlock runs.
NextReturn(g) ==
  /\ lbPc[g] = "inNext"
  /\ lbPc' = [ lbPc EXCEPT ![g] = "idle" ]
  /\ lbRet' = [ lbRet EXCEPT ![g] = 0 ]
  /\ UNCHANGED <<lbAlgo, endpoints, weightedList, current, randomSeed,
                 connections, lbMarked>>

\* MarkHealthy (healthy = TRUE) / MarkUnhealthy (healthy = FALSE) of the
\* endpoint with the given URL, under the write lock; Weighted rebuilds its list.
Mark(url, healthy) ==
  /\ CanLock
  /\ LET i == FirstWithURL(endpoints, url)
         eps == IF i = 0 THEN endpoints
                ELSE [ endpoints EXCEPT ![i].Healthy = healthy ]
     IN  /\ endpoints' = eps
         /\ weightedList' =
              IF lbAlgo = "weighted" /\ i # 0
              THEN buildWeightedList(eps, 1) ELSE weightedList
         /\ lbMarked' = (lbMarked \/ eps # endpoints)
  /\ UNCHANGED <<lbAlgo, current, randomSeed, connections, lbPc, lbRet>>

MarkHealthy(url) == Mark(url, TRUE)
MarkUnhealthy(url) == Mark(url, FALSE)

(***************************************************************************)
(*                             CIRCUIT BREAKER                             *)
(***************************************************************************)

\* The clock stops at MaxTime.
MaxTime == 5
\* At most MaxCalls invocations of Call in a run.
MaxCalls == 4

StateClosed == "closed"
StateOpen == "open"
StateHalfOpen == "half-open"

Callers == { "c1", "c2" }

\* Breaker configurations after CircuitBreakerConfig.Validate. Durations are
\* in clock ticks; FailureRatio is the fraction <<numerator, denominator>>.
CBConfigs ==
  { [ Enabled |-> TRUE, MaxRequests |-> 1, Interval |-> 2, Timeout |-> 1,
      FailureRatio |-> <<3, 5>>, MinimumRequests |-> 1 ],
    [ Enabled |-> TRUE, MaxRequests |-> 2, Interval |-> 3, Timeout |-> 2,
      FailureRatio |-> <<1, 2>>, MinimumRequests |-> 2 ],
    [ Enabled |-> FALSE, MaxRequests |-> 0, Interval |-> 0, Timeout |-> 0,
      FailureRatio |-> <<0, 1>>, MinimumRequests |-> 0 ] }

\* The comparison with > in place of >=.
RatioExceeded(f, r) ==
  f * cbConfig.FailureRatio[2] > cbConfig.FailureRatio[1] * r

\* float64(failures) / float64(requests) >= config.FailureRatio, for r > 0
\* (both sides are correctly rounded, so the comparison is the one of the
\* fractions).
RatioReached(f, r) ==
  f * cbConfig.FailureRatio[2] >= cbConfig.FailureRatio[1] * r

\* nextAttemptTime set without the timeout added.
openCircuitNoTimeout(t) ==
  [ state |-> StateOpen, nextAttemptTime |-> t, consecutiveSuccesses |-> 0 ]

\* CircuitBreaker.openCircuit, with t the value of its time.Now()
openCircuit(t) ==
  [ state |-> StateOpen,
    nextAttemptTime |-> t + cbConfig.Timeout,
    consecutiveSuccesses |-> 0 ]

\* CircuitBreaker.closeCircuit, with t the value of its time.Now()
closeCircuit(t) ==
  [ state |-> StateClosed, consecutiveFailures |-> 0,
    requests |-> 0, failures |-> 0, intervalStart |-> t ]

\* now.After(nextAttemptTime)
After(a, b) == a > b

\* NewCircuitBreaker
CBInit ==
  /\ cbConfig \in CBConfigs
  /\ state = StateClosed
  /\ consecutiveSuccesses = 0
  /\ consecutiveFailures = 0
  /\ requests = 0
  /\ failures = 0
  /\ lastFailureTime = 0
  /\ nextAttemptTime = 0
  /\ now = 1
  /\ intervalStart = 1
  /\ cbPc = [ c \in Callers |-> "idle" ]
  /\ cbAdm = [ c \in Callers |-> "none" ]
  /\ cbOp = [ op |-> "New", before |-> StateClosed, ok |-> TRUE, early |-> FALSE ]
  /\ openAdmits = 0
  /\ hoSuccesses = 0
  /\ calls = 0

CBIdle ==
  /\ cbConfig = [ Enabled |-> FALSE, MaxRequests |-> 0, Interval |-> 0, Timeout |-> 0,
                  FailureRatio |-> <<0, 1>>, MinimumRequests |-> 0 ]
  /\ state = StateClosed
  /\ consecutiveSuccesses = 0
  /\ consecutiveFailures = 0
  /\ requests = 0
  /\ failures = 0
  /\ lastFailureTime = 0
  /\ nextAttemptTime = 0
  /\ now = 1
  /\ intervalStart = 1
  /\ cbPc = [ c \in Callers |-> "idle" ]
  /\ cbAdm = [ c \in Callers |-> "none" ]
  /\ cbOp = [ op |-> "New", before |-> StateClosed, ok |-> TRUE, early |-> FALSE ]
  /\ openAdmits = 0
  /\ hoSuccesses = 0
  /\ calls = 0

cbCounters == <<consecutiveSuccesses, consecutiveFailures, requests, failures,
                lastFailureTime, nextAttemptTime, intervalStart>>

\* Time passes.
Tick ==
  /\ now < MaxTime
  /\ now' = now + 1
  /\ cbOp' = [ op |-> "Tick", before |-> state, ok |-> TRUE, early |-> FALSE ]
  /\ UNCHANGED <<cbConfig, state, cbCounters, cbPc, cbAdm, openAdmits,
                 hoSuccesses, calls>>

\* Call with the breaker disabled: fn runs without the breaker.
CallDisabled(c) ==
  /\ cbPc[c] = "idle"
  /\ calls < MaxCalls
  /\ ~cbConfig.Enabled
  /\ cbPc' = [ cbPc EXCEPT ![c] = "fnDirect" ]
  /\ calls' = calls + 1
  /\ cbOp' = [ op |-> "Call", before |-> state, ok |-> TRUE, early |-> FALSE ]
  /\ UNCHANGED <<cbConfig, state, cbCounters, now, cbAdm, openAdmits, hoSuccesses>>

\* fn returns in a Call with the breaker disabled: nothing is recorded.
FnReturnDirect(c) ==
  /\ cbPc[c] = "fnDirect"
  /\ cbPc' = [ cbPc EXCEPT ![c] = "idle" ]
  /\ cbOp' = [ op |-> "Return", before |-> state, ok |-> TRUE, early |-> FALSE ]
  /\ UNCHANGED <<cbConfig, state, cbCounters, now, cbAdm, openAdmits,
                 hoSuccesses, calls>>

\* Call with the breaker enabled, up to the end of the part of CanExecute
\* that runs under the read lock taken on entry: it returns true (the caller
\* goes on to fn), returns false (Call returns "circuit breaker is open"), or,
\* in StateOpen with the timeout passed, releases the read lock and goes on
\* to take the write lock.
CanExecute(c) ==
  /\ cbPc[c] = "idle"
  /\ calls < MaxCalls
  /\ cbConfig.Enabled
  /\ calls' = calls + 1
  /\ \/ /\ state = StateClosed
        /\ cbPc' = [ cbPc EXCEPT ![c] = "fn" ]
        /\ cbAdm' = [ cbAdm EXCEPT ![c] = StateClosed ]
        /\ cbOp' = [ op |-> "CanExecute", before |-> state, ok |-> TRUE,
                     early |-> FALSE ]
     \/ /\ state = StateOpen
        /\ After(now, nextAttemptTime)
        /\ cbPc' = [ cbPc EXCEPT ![c] = "upgrade" ]
        /\ cbOp' = [ op |-> "CanExecuteRead", before |-> state, ok |-> TRUE,
                     early |-> FALSE ]
        /\ UNCHANGED cbAdm
     \/ /\ state = StateOpen
        /\ ~After(now, nextAttemptTime)
        /\ cbOp' = [ op |-> "CanExecute", before |-> state, ok |-> FALSE,
                     early |-> (now < nextAttemptTime) ]
        /\ UNCHANGED <<cbPc, cbAdm>>
     \/ /\ state = StateHalfOpen
        /\ consecutiveSuccesses < cbConfig.MaxRequests
        /\ cbPc' = [ cbPc EXCEPT ![c] = "fn" ]
        /\ cbAdm' = [ cbAdm EXCEPT ![c] = StateHalfOpen ]
        /\ cbOp' = [ op |-> "CanExecute", before |-> state, ok |-> TRUE,
                     early |-> FALSE ]
     \/ /\ state = StateHalfOpen
        /\ ~(consecutiveSuccesses < cbConfig.MaxRequests)
        /\ cbOp' = [ op |-> "CanExecute", before |-> state, ok |-> FALSE,
                     early |-> FALSE ]
        /\ UNCHANGED <<cbPc, cbAdm>>
  /\ UNCHANGED <<cbConfig, state, cbCounters, now, openAdmits, hoSuccesses>>

\* The rest of case StateOpen of CanExecute: under the write lock set
\* StateHalfOpen and clear consecutiveSuccesses, whatever the state has
\* become since the read lock was released; return true.
CanExecuteUpgrade(c) ==
  /\ cbPc[c] = "upgrade"
  /\ state' = StateHalfOpen
  /\ consecutiveSuccesses' = 0
  /\ cbPc' = [ cbPc EXCEPT ![c] = "fn" ]
  /\ cbAdm' = [ cbAdm EXCEPT ![c] = StateOpen ]
  /\ cbOp' = [ op |-> "CanExecute", before |-> state, ok |-> TRUE,
               early |-> (now < nextAttemptTime) ]
  /\ openAdmits' = openAdmits + 1
  /\ hoSuccesses' = IF state = StateHalfOpen THEN hoSuccesses ELSE 0
  /\ UNCHANGED <<cbConfig, consecutiveFailures, requests, failures,
                 lastFailureTime, nextAttemptTime, intervalStart, now, calls>>

\* The breaker's fields after RecordResult(success), t2 being the clock read
\* by openCircuit / closeCircuit (RecordResult itself read `now`).
RecordResultFields(success, t2) ==
  LET expired == now - intervalStart > cbConfig.Interval
      istart  == IF expired THEN now ELSE intervalStart
      req     == (IF expired THEN 0 ELSE requests) + 1
      fail    == (IF expired THEN 0 ELSE failures) + (IF success THEN 0 ELSE 1)
      base    == [ state |-> state,
                   consecutiveSuccesses |-> consecutiveSuccesses,
                   consecutiveFailures |-> consecutiveFailures,
                   requests |-> req, failures |-> fail,
                   lastFailureTime |-> IF success THEN lastFailureTime ELSE now,
                   nextAttemptTime |-> nextAttemptTime,
                   intervalStart |-> istart ]
      opened  == openCircuit(t2)
      closed  == closeCircuit(t2)
      open(b) == [ b EXCEPT !.state = opened.state,
                            !.nextAttemptTime = opened.nextAttemptTime,
                            !.consecutiveSuccesses = opened.consecutiveSuccesses ]
      close(b) == [ b EXCEPT !.state = closed.state,
                             !.consecutiveFailures = closed.consecutiveFailures,
                             !.requests = closed.requests,
                             !.failures = closed.failures,
                             !.intervalStart = closed.intervalStart ]
  IN  CASE state = StateClosed ->
             IF ~success
             THEN LET b1 == [ base EXCEPT !.consecutiveFailures = @ + 1,
                                          !.consecutiveSuccesses = 0 ]
                  IN  IF req >= cbConfig.MinimumRequests /\ RatioReached(fail, req)
                      THEN open(b1) ELSE b1
             ELSE [ base EXCEPT !.consecutiveSuccesses = @ + 1,
                                !.consecutiveFailures = 0 ]
        [] state = StateHalfOpen ->
             IF success
             THEN LET b1 == [ base EXCEPT !.consecutiveSuccesses = @ + 1 ]
                  IN  IF b1.consecutiveSuccesses >= cbConfig.MaxRequests
                      THEN close(b1) ELSE b1
             ELSE open(base)
        [] OTHER -> base

\* fn returns and Call records its outcome: RecordResult(success) under the
\* write lock. d is the time that passes between RecordResult's own
\* time.Now() and the one of openCircuit / closeCircuit.
RecordResult(c, success, d) ==
  /\ cbPc[c] = "fn"
  /\ now + d <= MaxTime
  /\ LET b == RecordResultFields(success, now + d)
     IN  /\ d = 0 \/ b.state # state
         /\ state' = b.state
         /\ consecutiveSuccesses' = b.consecutiveSuccesses
         /\ consecutiveFailures' = b.consecutiveFailures
         /\ requests' = b.requests
         /\ failures' = b.failures
         /\ lastFailureTime' = b.lastFailureTime
         /\ nextAttemptTime' = b.nextAttemptTime
         /\ intervalStart' = b.intervalStart
         /\ openAdmits' = IF b.state = StateOpen /\ state # StateOpen
                          THEN 0 ELSE openAdmits
         /\ hoSuccesses' = IF state # StateHalfOpen THEN hoSuccesses
                           ELSE IF success THEN hoSuccesses + 1 ELSE 0
  /\ now' = now + d
  /\ cbPc' = [ cbPc EXCEPT ![c] = "idle" ]
  /\ cbAdm' = [ cbAdm EXCEPT ![c] = "none" ]
  /\ cbOp' = [ op |-> "RecordResult", before |-> state, ok |-> success,
               early |-> FALSE ]
  /\ UNCHANGED <<cbConfig, calls>>

(***************************************************************************)
(*                                 ROUTER                                  *)
(***************************************************************************)

\* At most MaxForwarded requests are forwarded to the upstream in a run.
MaxForwarded == 4

BackendIDs == { "api" }
\* What a route may name as its backend ("gone" is in no configuration).
RouteBackends == { "api", "gone" }
\* What the upstream does with a forwarded request: a status code, or
\* "refused" when the connection fails (the proxy's ErrorHandler answers).
UpstreamOutcomes == { "200", "500", "refused" }

StatusOK == 200
StatusInternalServerError == 500
StatusBadGateway == 502
StatusServiceUnavailable == 503
StatusGatewayTimeout == 504

\* The route's `timeout` (RouteConfig.Timeout), in clock ticks.
RouteTimeout == 1
\* The upstream answers a forwarded request after 0..MaxDelay ticks.
MaxDelay == 2

\* The circuit_breaker section of the backend: enabled, minimum_requests 3,
\* failure_ratio 0.6, max_requests 3, timeout 2 ticks, interval 4 ticks.
RouterBreakerConfig ==
  [ Enabled |-> TRUE, MaxRequests |-> 3, Interval |-> 4, Timeout |-> 2,
    FailureRatio |-> <<3, 5>>, MinimumRequests |-> 3 ]

NoRequest ==
  [ backend |-> "", status |-> 0, forwarded |-> FALSE, tripped |-> FALSE,
    late |-> FALSE ]

\* router.New: one Backend per configured service (disabled ones too), each
\* with the load balancer loadbalancer.New builds from its endpoints.
RouterInit ==
  /\ backends \in [ BackendIDs -> [ Enabled : BOOLEAN,
                                     CircuitBreaker : { RouterBreakerConfig } ] ]
  /\ rtLast = NoRequest
  /\ rtRequests = 0
  /\ rtFailures = 0
  /\ rtTripTime = 0

RouterIdle ==
  /\ backends = [ b \in BackendIDs |->
                    [ Enabled |-> FALSE, CircuitBreaker |-> RouterBreakerConfig ] ]
  /\ rtLast = NoRequest
  /\ rtRequests = 0
  /\ rtFailures = 0
  /\ rtTripTime = 0

\* Router.getBackend: TRUE when it returns a backend, FALSE on an error.
getBackend(id) == id \in DOMAIN backends /\ backends[id].Enabled

\* backend.LoadBalancer.Next() as one call: the position returned (0 = nil)
\* and the pool's counters after it.
LoadBalancerNext ==
  CASE lbAlgo = "round-robin" ->
         LET r == RoundRobinNext(endpoints, current)
         IN  [ ret |-> r.ret, current |-> r.cur, randomSeed |-> randomSeed,
               connections |-> connections ]
    [] lbAlgo = "weighted" ->
         LET r == WeightedNext(weightedList, current)
         IN  [ ret |-> r.ret, current |-> r.cur, randomSeed |-> randomSeed,
               connections |-> connections ]
    [] lbAlgo = "random" ->
         LET r == RandomNext(endpoints, randomSeed)
         IN  [ ret |-> r.ret, current |-> current, randomSeed |-> r.cur,
               connections |-> connections ]
    [] OTHER ->
         LET r == LeastConnNext(endpoints, connections)
         IN  [ ret |-> r.ret, current |-> current, randomSeed |-> randomSeed,
               connections |-> r.conns ]

\* The status the client gets for a forwarded request: the reverse proxy
\* passes the upstream's status through; its ErrorHandler writes 502.
ProxyStatus(outcome) ==
  CASE outcome = "200" -> StatusOK
    [] outcome = "500" -> StatusInternalServerError
    [] OTHER -> StatusBadGateway

\* History: the first three requests forwarded to the backend all failed and
\* the breaker timeout counted from the third failure has not elapsed, so a
\* breaker with minimum_requests 3 and failure_ratio 0.6 is Open.
BreakerShouldBeOpen(id) ==
  /\ id \in DOMAIN backends
  /\ backends[id].CircuitBreaker.Enabled
  /\ rtRequests >= 3
  /\ rtFailures = rtRequests
  /\ now < rtTripTime + backends[id].CircuitBreaker.Timeout

\* The handler Router.CreateHandler returns, for a route whose Backend is id,
\* with `outcome` what the upstream does if the request is forwarded:
\* getBackend, LoadBalancer.Next, proxy.ServeHTTP. The upstream takes `delay`
\* ticks to produce its outcome; the proxy is the one NewSingleHostReverseProxy
\* builds (default transport, the incoming request's context), so it waits
\* for the upstream however long that takes. Neither the backend's circuit
\* breaker configuration nor the route's Timeout is consulted.
Handle(id, outcome, delay) ==
  /\ rtRequests < MaxForwarded
  /\ \A g \in Goroutines : lbPc[g] = "idle"
  /\ IF ~getBackend(id)
     THEN /\ rtLast' = [ backend |-> id, status |-> StatusServiceUnavailable,
                         forwarded |-> FALSE, tripped |-> BreakerShouldBeOpen(id),
                         late |-> FALSE ]
          /\ UNCHANGED <<rtRequests, rtFailures, rtTripTime, current,
                         randomSeed, connections>>
     ELSE LET n == LoadBalancerNext
          IN  /\ current' = n.current
              /\ randomSeed' = n.randomSeed
              /\ connections' = n.connections
              /\ IF n.ret = 0
                 THEN /\ rtLast' = [ backend |-> id,
                                     status |-> StatusServiceUnavailable,
                                     forwarded |-> FALSE,
                                     tripped |-> BreakerShouldBeOpen(id),
                                     late |-> FALSE ]
                      /\ UNCHANGED <<rtRequests, rtFailures, rtTripTime>>
                 ELSE LET st == ProxyStatus(outcome)
                          failed == st >= 500
                      IN  /\ rtLast' = [ backend |-> id, status |-> st,
                                         forwarded |-> TRUE,
                                         tripped |-> BreakerShouldBeOpen(id),
                                         late |-> delay > RouteTimeout ]
                          /\ rtRequests' = rtRequests + 1
                          /\ rtFailures' = IF failed THEN rtFailures + 1
                                           ELSE rtFailures
                          /\ rtTripTime' =
                               IF failed /\ rtFailures = 2 /\ rtRequests = 2
                               THEN now ELSE rtTripTime
  /\ UNCHANGED <<backends, lbAlgo, endpoints, weightedList, lbPc, lbRet, lbMarked>>

(***************************************************************************)
(*                   RATE LIMITER AND ROUTE MIDDLEWARE                     *)
(***************************************************************************)

\* At most MaxAdmits admissions, over all keys, are followed in a run.
MaxAdmits == 4

\* time.Hour in seconds; one clock tick is half an hour.
Hour == 3600
TickSeconds == Hour \div 2
\* time.Now() in seconds
NowSeconds == now * TickSeconds

StatusUnauthorized == 401
StatusTooManyRequests == 429

Keys == { "k1", "k2" }

\* RateLimitConfig.GetPeriodDuration, in seconds
GetPeriodDuration(period) ==
  CASE period = "second" -> 1
    [] period = "minute" -> 60
    [] period = "hour" -> Hour
    [] OTHER -> 60

\* Rate-limit configurations that pass RateLimitConfig.Validate.
RateLimitConfigs ==
  { [ Enabled |-> TRUE, Rate |-> 1, Period |-> "hour", BurstSize |-> 1, WhiteList |-> {} ],
    [ Enabled |-> TRUE, Rate |-> 1, Period |-> "hour", BurstSize |-> 2, WhiteList |-> { "k2" } ],
    [ Enabled |-> TRUE, Rate |-> 1, Period |-> "minute", BurstSize |-> 2, WhiteList |-> {} ],
    [ Enabled |-> FALSE, Rate |-> 0, Period |-> "", BurstSize |-> 0, WhiteList |-> {} ] }

\* The route's auth policy: absent (Enabled FALSE), optional or required.
AuthConfigs ==
  { [ Enabled |-> FALSE, Required |-> FALSE ],
    [ Enabled |-> TRUE, Required |-> FALSE ],
    [ Enabled |-> TRUE, Required |-> TRUE ] }

NoMiddlewareRequest ==
  [ key |-> "", status |-> 0, authDenies |-> FALSE, limitDenies |-> FALSE ]

\* RateLimitConfig.IsWhitelisted
IsWhitelisted(key) == key \in rlConfig.WhiteList

Min(a, b) == IF a < b THEN a ELSE b

\* One token, in the unit the bucket's tokens are kept in.
OneToken == GetPeriodDuration(rlConfig.Period)

\* RateLimiter.cleanup at time t: the bucket map and cleanupAt after it.
cleanup(t) ==
  IF t < cleanupAt
  THEN [ buckets |-> buckets, cleanupAt |-> cleanupAt ]
  ELSE LET cutoff == t - Hour
           kept == { k \in DOMAIN buckets : ~(buckets[k].lastFill < cutoff) }
       IN  [ buckets |-> [ k \in kept |-> buckets[k] ],
             cleanupAt |-> t + Hour ]

\* RateLimiter.getBucket on bucket map bs at time t: the bucket for key,
\* created full when the map has none.
getBucket(bs, key, t) ==
  IF key \in DOMAIN bs THEN bs[key]
  ELSE [ tokens |-> rlConfig.BurstSize * OneToken, lastFill |-> t ]

\* A refill without the cap at capacity.
fillUncapped(bucket, t) ==
  [ tokens |-> bucket.tokens + (t - bucket.lastFill) * rlConfig.Rate,
    lastFill |-> t ]

\* TokenBucket.fill: rate = Rate / period, so elapsed * rate tokens are
\* elapsed * Rate in the bucket's unit.
fill(bucket, t) ==
  [ tokens |-> Min(bucket.tokens + (t - bucket.lastFill) * rlConfig.Rate,
                   rlConfig.BurstSize * OneToken),
    lastFill |-> t ]

\* A bucket that charges the n tokens whether it admits or not.
TokenBucketAllowCharging(bucket, n, t) ==
  LET b == fill(bucket, t)
  IN  [ ok |-> b.tokens >= n * OneToken,
        bucket |-> [ b EXCEPT !.tokens = @ - n * OneToken ] ]

\* TokenBucket.Allow(n) at time t: whether it admits, and the bucket after.
TokenBucketAllow(bucket, n, t) ==
  LET b == fill(bucket, t)
      ok == b.tokens >= n * OneToken
  IN  [ ok |-> ok,
        bucket |-> IF ok THEN [ b EXCEPT !.tokens = @ - n * OneToken ] ELSE b ]

\* RateLimiter.AllowN(key, n) at time t: whether it admits, and the
\* limiter's bucket map and cleanupAt after the call (cleanup, getBucket,
\* TokenBucket.Allow(n)).
AllowNResult(key, n, t) ==
  IF ~rlConfig.Enabled \/ IsWhitelisted(key)
  THEN [ ok |-> TRUE, buckets |-> buckets, cleanupAt |-> cleanupAt ]
  ELSE LET c == cleanup(t)
           a == TokenBucketAllow(getBucket(c.buckets, key, t), n, t)
       IN  [ ok |-> a.ok,
             buckets |-> [ k \in DOMAIN c.buckets \cup { key } |->
                             IF k = key THEN a.bucket ELSE c.buckets[k] ],
             cleanupAt |-> c.cleanupAt ]

\* RateLimiter.Allow(key) at time t: the same with TokenBucket.Allow(1).
AllowResult(key, t) == AllowNResult(key, 1, t)

\* NewRateLimiter, and the policies of the route it is attached to.
RLInit ==
  /\ rlConfig \in RateLimitConfigs
  /\ authConfig \in AuthConfigs
  /\ buckets = << >>
  /\ cleanupAt = NowSeconds + Hour
  /\ rlLog = [ k \in Keys |-> << >> ]
  /\ mwLast = NoMiddlewareRequest

RLIdle ==
  /\ rlConfig = [ Enabled |-> FALSE, Rate |-> 0, Period |-> "", BurstSize |-> 0,
                  WhiteList |-> {} ]
  /\ authConfig = [ Enabled |-> FALSE, Required |-> FALSE ]
  /\ buckets = << >>
  /\ cleanupAt = NowSeconds + Hour
  /\ rlLog = [ k \in Keys |-> << >> ]
  /\ mwLast = NoMiddlewareRequest

RECURSIVE SumLen(_, _)
SumLen(f, S) ==
  IF S = {} THEN 0
  ELSE LET k == CHOOSE x \in S : TRUE IN Len(f[k]) + SumLen(f, S \ { k })
\* The number of admissions logged so far.
Admitted == SumLen(rlLog, Keys)

\* The handler setupMainRouter registers for the route: CreateHandler's
\* handler, wrapped by middleware.RateLimit when the route has an enabled
\* rate-limit policy, then wrapped by middleware.Auth when it has an enabled
\* auth policy. The request carries the rate-limit key `key` and has
\* credentials of the configured type or not (`authenticated`); `inner` is
\* the status CreateHandler's handler answers when it is reached.
RouteRequest(key, authenticated, inner) ==
  LET a == AllowResult(key, NowSeconds)
      authDenies == authConfig.Enabled /\ ~authenticated /\ authConfig.Required
      limitDenies == rlConfig.Enabled /\ ~a.ok
  IN  /\ Admitted < MaxAdmits
      /\ IF authDenies
         THEN /\ mwLast' = [ key |-> key, status |-> StatusUnauthorized,
                             authDenies |-> TRUE, limitDenies |-> limitDenies ]
              /\ UNCHANGED <<buckets, cleanupAt, rlLog>>
         ELSE IF ~rlConfig.Enabled
         THEN /\ mwLast' = [ key |-> key, status |-> inner,
                             authDenies |-> FALSE, limitDenies |-> FALSE ]
              /\ UNCHANGED <<buckets, cleanupAt, rlLog>>
         ELSE /\ buckets' = a.buckets
              /\ cleanupAt' = a.cleanupAt
              /\ rlLog' = IF a.ok
                          THEN [ rlLog EXCEPT ![key] = Append(@, NowSeconds) ]
                          ELSE rlLog
              /\ mwLast' = [ key |-> key,
                             status |-> IF a.ok THEN inner
                                        ELSE StatusTooManyRequests,
                             authDenies |-> FALSE, limitDenies |-> ~a.ok ]
      /\ UNCHANGED <<rlConfig, authConfig>>

\* ---- the RateLimit middleware with its key extraction ----

\* Largest n of an AllowN call.
MaxN == 2

KeyTypes == { "IP", "API_KEY", "USER_ID", "GLOBAL" }
Users == { "alice", "bob" }
\* The requests that arrive: client address, X-API-Key header and the
\* authenticated user. The first two differ in the user only.
Requests ==
  { [ ip |-> "k1", apiKey |-> "a1", user |-> "alice" ],
    [ ip |-> "k1", apiKey |-> "a1", user |-> "bob" ],
    [ ip |-> "k2", apiKey |-> "a2", user |-> "bob" ] }

\* The switch on config.KeyType in middleware.RateLimit.
ExtractKey(kt, req) ==
  CASE kt = "IP" -> req.ip
    [] kt = "API_KEY" -> req.apiKey
    [] OTHER -> "global"

\* The keys the middleware passes to the limiter.
LimiterKeys == { ExtractKey(keyType, req) : req \in Requests }

NoLimiterCall ==
  [ op |-> "none", key |-> "", user |-> "", first |-> FALSE, n |-> 0, ok |-> TRUE ]

LimInit ==
  /\ keyType \in KeyTypes
  /\ limSeen = {}
  /\ limLast = NoLimiterCall

LimIdle ==
  /\ keyType = "IP"
  /\ limSeen = {}
  /\ limLast = NoLimiterCall

\* One request through middleware.RateLimit: the key is extracted and
\* limiter.Allow(key) decides.
RateLimit(req) ==
  LET key == ExtractKey(keyType, req)
      a == AllowResult(key, NowSeconds)
  IN  /\ buckets' = a.buckets
      /\ cleanupAt' = a.cleanupAt
      /\ limLast' = [ op |-> "Allow", key |-> key, user |-> req.user,
                      first |-> req.user \notin limSeen, n |-> 1, ok |-> a.ok ]
      /\ limSeen' = limSeen \cup { req.user }
      /\ UNCHANGED <<rlConfig, authConfig, rlLog, mwLast, keyType>>

\* A direct call of RateLimiter.AllowN(key, n).
AllowN(key, n) ==
  LET a == AllowNResult(key, n, NowSeconds)
  IN  /\ buckets' = a.buckets
      /\ cleanupAt' = a.cleanupAt
      /\ limLast' = [ op |-> "AllowN", key |-> key, user |-> "",
                      first |-> FALSE, n |-> n, ok |-> a.ok ]
      /\ UNCHANGED <<rlConfig, authConfig, rlLog, mwLast, keyType, limSeen>>

(***************************************************************************)
(*              CONFIGURATION, ADMIN API, RELOAD AND MAIN MUX              *)
(***************************************************************************)

\* Bounds on the lengths of Config.Routes and Config.Backends.
MaxCfgRoutes == 1
MaxCfgBackends == 2

StatusCreated == 201
StatusNoContent == 204
StatusBadRequest == 400
StatusNotFound == 404

PathA == <<"/", "a">>
PathB == <<"/", "b">>
\* Paths of client requests.
ClientPaths == { <<"/", "a", "/", "x">>, PathB, <<"/", "c">> }

\* The algorithms LoadBalancerConfig.Validate accepts ("" becomes the default)
ValidAlgorithms == { "round-robin", "weighted", "least-conn", "ip-hash", "random", "" }
\* The algorithms loadbalancer.New builds a pool for
SupportedAlgorithms == { "round-robin", "", "weighted", "least-conn", "random" }

\* Bodies of admin CreateRoute / UpdateRoute requests. Methods, timeout and
\* priority are valid in all of them.
RouteBodies ==
  { [ ID |-> "r1", Path |-> PathA, Backend |-> "api", Enabled |-> TRUE ],
    [ ID |-> "r1", Path |-> PathA, Backend |-> "api2", Enabled |-> TRUE ],
    [ ID |-> "r2", Path |-> PathB, Backend |-> "api", Enabled |-> TRUE ],
    [ ID |-> "r3", Path |-> PathB, Backend |-> "", Enabled |-> TRUE ] }
RouteIDs == { "r1", "r2" }

\* Bodies of admin CreateBackend requests. Name, endpoints, health check,
\* breaker and retry policy are valid in all of them.
BackendBodies ==
  { [ ID |-> "api", Algorithm |-> "random", Enabled |-> FALSE ],
    [ ID |-> "api3", Algorithm |-> "ip-hash", Enabled |-> TRUE ],
    [ ID |-> "api3", Algorithm |-> "fastest", Enabled |-> TRUE ] }

\* RouteConfig.Validate on an admin body
RouteValidate(r) ==
  /\ r.ID # ""
  /\ r.Path # << >> /\ r.Path[1] = "/"
  /\ r.Backend # ""

\* BackendService.Validate on an admin body
BackendValidate(b) ==
  /\ b.ID # ""
  /\ b.Algorithm \in ValidAlgorithms

\* Config.Validate, the check main applies to the loaded configuration:
\* backend IDs unique, route IDs unique, every route's backend exists.
ConfigValidate(rs, bs) ==
  /\ \A i \in 1..Len(bs) : BackendValidate(bs[i])
  /\ \A i, j \in 1..Len(bs) : bs[i].ID = bs[j].ID => i = j
  /\ \A i \in 1..Len(rs) : RouteValidate(rs[i])
  /\ \A i, j \in 1..Len(rs) : rs[i].ID = rs[j].ID => i = j
  /\ \A i \in 1..Len(rs) : \E j \in 1..Len(bs) : bs[j].ID = rs[i].Backend

IsPrefix(p, q) == Len(p) <= Len(q) /\ SubSeq(q, 1, Len(p)) = p

RECURSIVE initializeBackends(_, _, _)
\* The loop of router.New / Router.Reload over cfg.Backends from position i
\* on, with acc the backends map so far: initializeBackend fails when
\* loadbalancer.New does not support the algorithm, and the loop returns at
\* the first failure.
initializeBackends(bs, i, acc) ==
  IF i > Len(bs) THEN [ ok |-> TRUE, backends |-> acc ]
  ELSE IF bs[i].Algorithm \notin SupportedAlgorithms
       THEN [ ok |-> FALSE, backends |-> acc ]
       ELSE initializeBackends(bs, i + 1,
              [ id \in DOMAIN acc \cup { bs[i].ID } |->
                  IF id = bs[i].ID
                  THEN [ Enabled |-> bs[i].Enabled,
                         CircuitBreaker |-> RouterBreakerConfig ]
                  ELSE acc[id] ])

\* The enabled routes in order: what setupMainRouter registers.
EnabledRoutes(rs) == SelectSeq(rs, LAMBDA r : r.Enabled)

\* The mux: the first registered route whose PathPrefix matches, 0 if none.
MuxMatch(rs, path) ==
  IF \E i \in 1..Len(rs) : IsPrefix(rs[i].Path, path)
  THEN CHOOSE i \in 1..Len(rs) :
         /\ IsPrefix(rs[i].Path, path)
         /\ \A j \in 1..(i - 1) : ~IsPrefix(rs[j].Path, path)
  ELSE 0

\* The position of the first route of rs with the given ID, 0 if none.
FirstWithID(rs, id) ==
  IF \E i \in 1..Len(rs) : rs[i].ID = id
  THEN CHOOSE i \in 1..Len(rs) :
         rs[i].ID = id /\ \A j \in 1..(i - 1) : rs[j].ID # id
  ELSE 0

\* Config.Admin.APIKey of the running server: Config.Validate refuses an
\* empty key when the admin API is enabled.
AdminAPIKey == "secret"
\* X-API-Key headers of admin requests; "" is a missing header.
HeaderKeys == { "", "secret", "wrong" }

\* Any present header accepted.
KeyAcceptedIfPresent(apiKey) == apiKey # ""
\* The test APIKeyAuth applies: the request goes on to the handler.
KeyAccepted(apiKey) == apiKey = AdminAPIKey

NoPending == [ pc |-> "none", path |-> << >>, backend |-> "", route |-> "",
               backendOK |-> FALSE, reloaded |-> FALSE ]

\* What main loads: a configuration that passes Config.Validate and for
\* which router.New succeeds.
InitialRoutes ==
  { << [ ID |-> "r1", Path |-> PathA, Backend |-> "api", Enabled |-> TRUE ] >>,
    << [ ID |-> "r1", Path |-> PathA, Backend |-> "api", Enabled |-> TRUE ],
       [ ID |-> "r2", Path |-> PathB, Backend |-> "api", Enabled |-> FALSE ] >> }
InitialBackends ==
  { << [ ID |-> "api", Algorithm |-> "round-robin", Enabled |-> TRUE ] >> }

\* server.New: router.New(cfg) and setupMainRouter.
AdminInit ==
  /\ cfgRoutes \in InitialRoutes
  /\ cfgBackends \in InitialBackends
  /\ ConfigValidate(cfgRoutes, cfgBackends)
  /\ initializeBackends(cfgBackends, 1, << >>).ok
  /\ backends = initializeBackends(cfgBackends, 1, << >>).backends
  /\ routes = cfgRoutes
  /\ muxRoutes = EnabledRoutes(cfgRoutes)
  /\ reloadOK = FALSE
  /\ pending = NoPending
  /\ admLast = [ op |-> "New", status |-> 0 ]
  /\ admKey = ""

AdminIdle ==
  /\ cfgRoutes = << >>
  /\ cfgBackends = << >>
  /\ muxRoutes = << >>
  /\ reloadOK = FALSE
  /\ pending = NoPending
  /\ admLast = [ op |-> "New", status |-> 0 ]
  /\ admKey = ""

\* middleware.APIKeyAuth(validKey) around the admin handler `next`, for a
\* request of kind op whose X-API-Key header is apiKey (absent = "").
APIKeyAuth(apiKey, op, next) ==
  /\ admKey' = apiKey
  /\ IF ~KeyAccepted(apiKey)
     THEN /\ admLast' = [ op |-> op, status |-> StatusUnauthorized ]
          /\ UNCHANGED <<cfgRoutes, cfgBackends, muxRoutes, reloadOK, pending,
                         routes, backends>>
     ELSE next

\* api.CreateRouteHandler
CreateRoute(body) ==
  /\ IF ~RouteValidate(body)
     THEN /\ admLast' = [ op |-> "CreateRoute", status |-> StatusBadRequest,
                          id |-> body.ID ]
          /\ UNCHANGED cfgRoutes
     ELSE /\ Len(cfgRoutes) < MaxCfgRoutes
          /\ cfgRoutes' = Append(cfgRoutes, body)
          /\ admLast' = [ op |-> "CreateRoute", status |-> StatusCreated,
                          id |-> body.ID, route |-> body ]
  /\ UNCHANGED <<cfgBackends, muxRoutes, reloadOK, pending, routes, backends>>

\* api.GetRouteHandler for /admin/routes/{id}: the first route of the
\* configuration with that ID, or 404.
GetRoute(id) ==
  /\ LET i == FirstWithID(cfgRoutes, id)
     IN  admLast' = IF i = 0
                    THEN [ op |-> "GetRoute", status |-> StatusNotFound, id |-> id ]
                    ELSE [ op |-> "GetRoute", status |-> StatusOK, id |-> id,
                           route |-> cfgRoutes[i] ]
  /\ UNCHANGED <<cfgRoutes, cfgBackends, muxRoutes, reloadOK, pending, routes,
                 backends>>

\* api.UpdateRouteHandler for /admin/routes/{id}
UpdateRoute(id, body) ==
  /\ IF ~RouteValidate(body)
     THEN /\ admLast' = [ op |-> "UpdateRoute", status |-> StatusBadRequest,
                          id |-> id ]
          /\ UNCHANGED cfgRoutes
     ELSE LET i == FirstWithID(cfgRoutes, id)
          IN  IF i = 0
              THEN /\ admLast' = [ op |-> "UpdateRoute", status |-> StatusNotFound,
                                   id |-> id ]
                   /\ UNCHANGED cfgRoutes
              ELSE /\ cfgRoutes' = [ cfgRoutes EXCEPT ![i] = body ]
                   /\ admLast' = [ op |-> "UpdateRoute", status |-> StatusOK,
                                   id |-> id ]
  /\ UNCHANGED <<cfgBackends, muxRoutes, reloadOK, pending, routes, backends>>

\* api.DeleteRouteHandler for /admin/routes/{id}
DeleteRoute(id) ==
  /\ LET i == FirstWithID(cfgRoutes, id)
     IN  IF i = 0
         THEN /\ admLast' = [ op |-> "DeleteRoute", status |-> StatusNotFound,
                              id |-> id ]
              /\ UNCHANGED cfgRoutes
         ELSE /\ cfgRoutes' = SubSeq(cfgRoutes, 1, i - 1)
                                \o SubSeq(cfgRoutes, i + 1, Len(cfgRoutes))
              /\ admLast' = [ op |-> "DeleteRoute", status |-> StatusNoContent,
                              id |-> id ]
  /\ UNCHANGED <<cfgBackends, muxRoutes, reloadOK, pending, routes, backends>>

\* api.CreateBackendHandler
CreateBackend(body) ==
  /\ IF ~BackendValidate(body)
     THEN /\ admLast' = [ op |-> "CreateBackend", status |-> StatusBadRequest ]
          /\ UNCHANGED cfgBackends
     ELSE /\ Len(cfgBackends) < MaxCfgBackends
          /\ cfgBackends' = Append(cfgBackends, body)
          /\ admLast' = [ op |-> "CreateBackend", status |-> StatusCreated ]
  /\ UNCHANGED <<cfgRoutes, muxRoutes, reloadOK, pending, routes, backends>>

\* api.ReloadConfigHandler: Router.Reload(cfg) on the configuration object
\* the admin handlers edit. Reload holds the router's write lock from start
\* to end; it installs an empty backends map and an empty route collection,
\* then initialises the backends in order, returning at the first failure,
\* and only then copies the routes.
ReloadConfig ==
  LET r == initializeBackends(cfgBackends, 1, << >>)
  IN  /\ backends' = r.backends
      /\ routes' = IF r.ok THEN cfgRoutes ELSE << >>
      /\ reloadOK' = r.ok
      /\ pending' = IF pending.pc = "matched"
                    THEN [ pending EXCEPT !.reloaded = TRUE ]
                    ELSE pending
      /\ admLast' = [ op |-> "Reload",
                      status |-> IF r.ok THEN StatusOK
                                 ELSE StatusInternalServerError,
                      kept |-> (r.backends = backends
                                  /\ routes' = routes) ]
      /\ UNCHANGED <<cfgRoutes, cfgBackends, muxRoutes>>

\* A client request arrives: the main mux matches its path against the
\* routes registered at start-up and picks the handler, which holds its own
\* copy of the route.
RequestMatch(path) ==
  /\ pending.pc = "none"
  /\ LET i == MuxMatch(muxRoutes, path)
     IN  IF i = 0
         THEN /\ admLast' = [ op |-> "Request", status |-> StatusNotFound,
                              path |-> path, route |-> "",
                              backendOK |-> FALSE, reloaded |-> FALSE ]
              /\ admKey' = ""
              /\ UNCHANGED pending
         ELSE /\ pending' = [ pc |-> "matched", path |-> path,
                              backend |-> muxRoutes[i].Backend,
                              route |-> muxRoutes[i].ID,
                              backendOK |-> getBackend(muxRoutes[i].Backend),
                              reloaded |-> FALSE ]
              /\ UNCHANGED <<admLast, admKey>>
  /\ UNCHANGED <<cfgRoutes, cfgBackends, muxRoutes, reloadOK, routes, backends>>

\* The matched request's handler runs (Router.CreateHandler): getBackend on
\* the route's backend ID, then the forward. Every initialised backend has a
\* healthy endpoint here and its upstream answers 200.
RequestServe ==
  /\ pending.pc = "matched"
  /\ admLast' = [ op |-> "Request",
                  status |-> IF getBackend(pending.backend) THEN StatusOK
                             ELSE StatusServiceUnavailable,
                  path |-> pending.path, route |-> pending.route,
                  backendOK |-> pending.backendOK,
                  reloaded |-> pending.reloaded ]
  /\ pending' = NoPending
  /\ admKey' = ""
  /\ UNCHANGED <<cfgRoutes, cfgBackends, muxRoutes, reloadOK, routes, backends>>

(***************************************************************************)
(*                             HEALTH CHECKER                              *)
(***************************************************************************)

\* The backends of the checker's configuration. "api" is the backend whose
\* load-balancer pool is the pool above; "api2" has the single endpoint u2.
HCBackends == { "api", "api2" }

\* The endpoint URLs performHealthCheck probes for a backend.
BackendURLs(b) ==
  IF b = "api" THEN { endpoints[i].URL : i \in 1..Len(endpoints) } ELSE { "u2" }

\* The pools of backend "api" the checker is run with.
HCPools ==
  { << [ URL |-> "u1", Weight |-> 1, Healthy |-> TRUE ] >>,
    << [ URL |-> "u1", Weight |-> 1, Healthy |-> FALSE ] >>,
    << [ URL |-> "u1", Weight |-> 1, Healthy |-> TRUE ],
       [ URL |-> "u2", Weight |-> 1, Healthy |-> FALSE ] >> }

NoHealthRequest == [ pc |-> "idle", ids |-> {} ]

\* NewChecker
HCInit ==
  /\ hcConfig \in [ HCBackends -> [ Enabled : BOOLEAN, HealthCheck : BOOLEAN ] ]
  /\ hcCtx = "none"
  /\ hcPc = [ b \in HCBackends |-> "none" ]
  /\ tickerC = [ b \in HCBackends |-> FALSE ]
  /\ statuses = << >>
  /\ probeOK \in [ URLs -> BOOLEAN ]
  /\ hcStopped = FALSE
  /\ probeAfterStop = FALSE
  /\ hcLast = [ op |-> "New" ]
  /\ hhReq = NoHealthRequest

HCIdle ==
  /\ hcConfig = [ b \in HCBackends |-> [ Enabled |-> FALSE, HealthCheck |-> FALSE ] ]
  /\ hcCtx = "none"
  /\ hcPc = [ b \in HCBackends |-> "none" ]
  /\ tickerC = [ b \in HCBackends |-> FALSE ]
  /\ statuses = << >>
  /\ probeOK = [ u \in URLs |-> FALSE ]
  /\ hcStopped = FALSE
  /\ probeAfterStop = FALSE
  /\ hcLast = [ op |-> "New" ]
  /\ hhReq = NoHealthRequest

\* Checker.Start: derive the context, give every enabled backend the status
\* "unknown" and start a checkBackendHealth goroutine for those with an
\* enabled health check.
Start ==
  /\ hcCtx = "none"
  /\ hcCtx' = "live"
  /\ statuses' = [ b \in { x \in HCBackends : hcConfig[x].Enabled } |-> "unknown" ]
  /\ hcPc' = [ b \in HCBackends |->
                 IF hcConfig[b].Enabled /\ hcConfig[b].HealthCheck
                 THEN "initial" ELSE "none" ]
  /\ hcLast' = [ op |-> "Start" ]
  /\ UNCHANGED <<hcConfig, tickerC, probeOK, hcStopped, probeAfterStop, hhReq>>

\* Checker.Stop: cancel the context and return.
Stop ==
  /\ hcCtx = "live"
  /\ hcCtx' = "cancelled"
  /\ hcStopped' = TRUE
  /\ hcLast' = [ op |-> "Stop" ]
  /\ UNCHANGED <<hcConfig, hcPc, tickerC, statuses, probeOK, probeAfterStop,
                 hhReq>>

\* The context passed to Start is cancelled by its owner.
ParentCancel ==
  /\ hcCtx = "live"
  /\ hcCtx' = "cancelled"
  /\ hcLast' = [ op |-> "Cancel" ]
  /\ UNCHANGED <<hcConfig, hcPc, tickerC, statuses, probeOK, hcStopped,
                 probeAfterStop, hhReq>>

\* The ticker of backend b's worker fires (the channel holds one tick).
TickerFire(b) ==
  /\ hcPc[b] \in { "probing", "select" }
  /\ ~tickerC[b]
  /\ tickerC' = [ tickerC EXCEPT ![b] = TRUE ]
  /\ UNCHANGED <<hcConfig, hcCtx, hcPc, statuses, probeOK, hcStopped,
                 probeAfterStop, hcLast, hhReq>>

\* An upstream endpoint starts or stops answering probes as expected.
UpstreamChange(u) ==
  /\ probeOK' = [ probeOK EXCEPT ![u] = ~@ ]
  /\ UNCHANGED <<hcConfig, hcCtx, hcPc, tickerC, statuses, hcStopped,
                 probeAfterStop, hcLast, hhReq>>

\* checkBackendHealth calls performHealthCheck: the initial check, or the
\* select taking a tick (when the context is done as well, select may still
\* take the tick). performHealthCheck takes the checker's mutex and holds
\* it for the whole round.
ProbeBegin(b) ==
  /\ \/ hcPc[b] = "initial" /\ UNCHANGED tickerC
     \/ /\ hcPc[b] = "select" /\ tickerC[b]
        /\ tickerC' = [ tickerC EXCEPT ![b] = FALSE ]
  /\ \A x \in HCBackends : hcPc[x] # "probing"
  /\ hcPc' = [ hcPc EXCEPT ![b] = "probing" ]
  /\ probeAfterStop' = (probeAfterStop \/ hcStopped)
  /\ UNCHANGED <<hcConfig, hcCtx, statuses, probeOK, hcStopped, hcLast, hhReq>>

\* performHealthCheck finishes its round: checkEndpoint for every endpoint
\* (a request fails when the context is cancelled before the answer:
\* `aborted`), UpdateEndpoint for each, then status.Update with "at least
\* one endpoint healthy". Nothing else is written.
ProbeEnd(b, aborted) ==
  /\ hcPc[b] = "probing"
  /\ aborted => hcCtx = "cancelled"
  /\ LET results == [ u \in BackendURLs(b) |-> probeOK[u] /\ ~aborted ]
         atLeastOneHealthy == \E u \in BackendURLs(b) : results[u]
     IN  /\ statuses' = [ x \in DOMAIN statuses \cup { b } |->
                            IF x = b
                            THEN IF atLeastOneHealthy THEN "healthy" ELSE "unhealthy"
                            ELSE statuses[x] ]
         /\ hcLast' = [ op |-> "Probe", backend |-> b, results |-> results,
                        live |-> hcCtx = "live" ]
  /\ hcPc' = [ hcPc EXCEPT ![b] = "select" ]
  /\ UNCHANGED <<hcConfig, hcCtx, tickerC, probeOK, hcStopped, probeAfterStop, hhReq>>

\* The select of checkBackendHealth takes <-c.ctx.Done(): the worker returns.
WorkerExit(b) ==
  /\ hcPc[b] = "select"
  /\ hcCtx = "cancelled"
  /\ hcPc' = [ hcPc EXCEPT ![b] = "exited" ]
  /\ UNCHANGED <<hcConfig, hcCtx, tickerC, statuses, probeOK, hcStopped,
                 probeAfterStop, hcLast, hhReq>>

\* Only "unhealthy" counted against the overall status.
CountsAsHealthyUnlessDown(st) == st # "unhealthy"
\* The test HealthHandler applies to a tracked backend's status.
CountsAsHealthy(st) == st = "healthy"

\* GET /health, first part: HealthHandler calls Checker.GetAllStatuses, which
\* copies the status map (pointers to the records) under the read lock. The
\* main server listens only after Checker.Start has returned.
HealthGetAll ==
  /\ hcCtx # "none"
  /\ hhReq.pc = "idle"
  /\ \A x \in HCBackends : hcPc[x] # "probing"
  /\ hhReq' = [ pc |-> "reading", ids |-> DOMAIN statuses ]
  /\ UNCHANGED <<hcConfig, hcCtx, hcPc, tickerC, statuses, probeOK, hcStopped,
                 probeAfterStop, hcLast>>

\* GET /health, second part: the loop over the returned map reads each
\* record's Status (the records are the checker's own, read after the lock
\* was released) and the response is written: 200 "healthy" when no status
\* differs from "healthy", 503 "unhealthy" otherwise.
HealthRespond ==
  /\ hhReq.pc = "reading"
  /\ LET overallHealthy == \A id \in hhReq.ids : CountsAsHealthy(statuses[id])
     IN  hcLast' = [ op |-> "Health",
                     status |-> IF overallHealthy THEN StatusOK
                                ELSE StatusServiceUnavailable,
                     body |-> IF overallHealthy THEN "healthy" ELSE "unhealthy" ]
  /\ hhReq' = NoHealthRequest
  /\ UNCHANGED <<hcConfig, hcCtx, hcPc, tickerC, statuses, probeOK, hcStopped,
                 probeAfterStop>>

\* A client request's LoadBalancer.Next() on the pool of backend "api".
ClientNext ==
  /\ \A g \in Goroutines : lbPc[g] = "idle"
  /\ \A u \in URLs : connections[u] < MaxConn
  /\ LET n == LoadBalancerNext
     IN  /\ current' = n.current
         /\ randomSeed' = n.randomSeed
         /\ connections' = n.connections
         /\ hcLast' = [ op |-> "Next",
                        url |-> IF n.ret = 0 THEN "" ELSE endpoints[n.ret].URL ]
  /\ UNCHANGED <<lbAlgo, endpoints, weightedList, lbPc, lbRet, lbMarked>>
  /\ UNCHANGED <<hcConfig, hcCtx, hcPc, tickerC, statuses, probeOK, hcStopped,
                 probeAfterStop, hhReq>>

(***************************************************************************)
(*                        CONFIGURATION VALIDATION                         *)
(***************************************************************************)

\* Bound on the number of routes of the loaded configuration.
MaxValRoutes == 2

\* Defaults and limits of the Validate methods, in seconds.
DefaultRouteTimeout == 30
MaxRouteTimeout == 300
DefaultHealthInterval == 30
DefaultHealthTimeout == 5
DefaultMaxRequests == 3
DefaultBreakerInterval == 60
DefaultBreakerTimeout == 30
DefaultFailureRatio == <<3, 5>>
DefaultMinimumRequests == 3

\* Ratios are pairs <<numerator, denominator>>; <<0, 1>> is an omitted ratio.
ZeroRatio == <<0, 1>>

\* Routes as loaded: ID, path, methods, backend and priority are valid; the
\* timeout is omitted (0), given, or above five minutes.
LoadedRoutes == [ Timeout : { 0, 10, MaxRouteTimeout + 1 } ]

\* Health-check sections as loaded (path, thresholds and expected statuses
\* are valid).
LoadedHealthChecks ==
  [ Enabled : BOOLEAN, Interval : { 0, 10 }, Timeout : { 0, 2, 10 } ]

\* Breaker sections as loaded.
LoadedBreakers ==
  [ Enabled : BOOLEAN, MaxRequests : { 0, 5 }, Interval : { 0, 10 },
    Timeout : { 0, 10 }, FailureRatio : { ZeroRatio, <<1, 2>>, <<3, 2>> },
    MinimumRequests : { 0, 5 } ]

\* RouteConfig.Validate, on the receiver it is called on: the error it
\* returns (FALSE = nil) and the receiver afterwards.
RouteConfigValidate(r) ==
  IF r.Timeout = 0
  THEN [ err |-> FALSE, v |-> [ r EXCEPT !.Timeout = DefaultRouteTimeout ] ]
  ELSE [ err |-> r.Timeout > MaxRouteTimeout, v |-> r ]

\* HealthCheckConfig.Validate
HealthCheckConfigValidate(h) ==
  IF ~h.Enabled THEN [ err |-> FALSE, v |-> h ]
  ELSE IF h.Interval # 0 /\ h.Interval < 1 THEN [ err |-> TRUE, v |-> h ]
  ELSE LET h1 == IF h.Interval = 0
                 THEN [ h EXCEPT !.Interval = DefaultHealthInterval ] ELSE h
       IN  IF h1.Timeout = 0
           THEN [ err |-> FALSE,
                  v |-> [ h1 EXCEPT !.Timeout = DefaultHealthTimeout ] ]
           ELSE [ err |-> h1.Timeout >= h1.Interval, v |-> h1 ]

\* CircuitBreakerConfig.Validate
CircuitBreakerConfigValidate(c) ==
  IF ~c.Enabled THEN [ err |-> FALSE, v |-> c ]
  ELSE LET c1 == IF c.MaxRequests = 0
                 THEN [ c EXCEPT !.MaxRequests = DefaultMaxRequests ] ELSE c
           c2 == IF c1.Interval = 0
                 THEN [ c1 EXCEPT !.Interval = DefaultBreakerInterval ] ELSE c1
           c3 == IF c2.Timeout = 0
                 THEN [ c2 EXCEPT !.Timeout = DefaultBreakerTimeout ] ELSE c2
       IN  IF c3.FailureRatio[1] < 0 \/ c3.FailureRatio[1] > c3.FailureRatio[2]
           THEN [ err |-> TRUE, v |-> c3 ]
           ELSE LET c4 == IF c3.FailureRatio[1] = 0
                          THEN [ c3 EXCEPT !.FailureRatio = DefaultFailureRatio ]
                          ELSE c3
                    c5 == IF c4.MinimumRequests = 0
                          THEN [ c4 EXCEPT !.MinimumRequests = DefaultMinimumRequests ]
                          ELSE c4
                IN  [ err |-> FALSE, v |-> c5 ]

\* BackendService.Validate, on the receiver it is called on. HealthCheck and
\* CircuitBreaker are struct fields of the receiver, validated in place.
BackendServiceValidate(b) ==
  LET h == HealthCheckConfigValidate(b.HealthCheck)
  IN  IF h.err THEN [ err |-> TRUE, v |-> [ b EXCEPT !.HealthCheck = h.v ] ]
      ELSE LET c == CircuitBreakerConfigValidate(b.CircuitBreaker)
           IN  [ err |-> c.err,
                 v |-> [ b EXCEPT !.HealthCheck = h.v, !.CircuitBreaker = c.v ] ]

\* config.Load: what main holds before it validates.
ValInit ==
  /\ valCfg \in { [ Routes |-> rs, Backends |-> << b >> ] :
                    rs \in UNION { [ 1..n -> LoadedRoutes ] : n \in 1..MaxValRoutes },
                    b \in [ HealthCheck : LoadedHealthChecks,
                            CircuitBreaker : LoadedBreakers ] }
  /\ valInput = valCfg
  /\ valResult = "none"

ValIdle ==
  /\ valCfg = [ Routes |-> << >>, Backends |-> << >> ]
  /\ valInput = valCfg
  /\ valResult = "none"

\* main's cfg.Validate(): Config.Validate. Both loops are
\* `for i, x := range c.Slice`, so x is a copy of the element and the
\* pointer-receiver Validate is called on the copy; the slices of the
\* configuration are never written. Backends are validated before routes
\* and the first error is returned.
ValidateCall ==
  /\ valResult = "none"
  /\ LET bs == [ i \in 1..Len(valCfg.Backends) |->
                   BackendServiceValidate(valCfg.Backends[i]) ]
         rs == [ i \in 1..Len(valCfg.Routes) |->
                   RouteConfigValidate(valCfg.Routes[i]) ]
     IN  valResult' = IF \/ \E i \in 1..Len(bs) : bs[i].err
                         \/ \E i \in 1..Len(rs) : rs[i].err
                      THEN "error" ELSE "ok"
  /\ UNCHANGED <<valCfg, valInput>>

\* Largest interval and timeout, in seconds, of the health-check policies
\* validated on their own.
MaxPolicySeconds == 6

\* The health-check policies a configuration file can hold.
HealthPolicies ==
  [ Enabled : BOOLEAN, Interval : 0..MaxPolicySeconds, Timeout : 0..MaxPolicySeconds ]

\* A health-check policy as loaded, before its Validate is called.
PolicyInit ==
  /\ valCfg \in HealthPolicies
  /\ valInput = valCfg
  /\ valResult = "none"

\* h.Validate() on the policy itself: the receiver keeps what Validate
\* wrote, whether it returns an error or not.
HealthCheckValidateCall ==
  /\ valResult = "none"
  /\ LET r == HealthCheckConfigValidate(valCfg)
     IN  /\ valCfg' = r.v
         /\ valResult' = IF r.err THEN "error" ELSE "ok"
  /\ UNCHANGED valInput

(***************************************************************************)
(*                    ROTATION OF ROUND-ROBIN AND WEIGHTED                 *)
(***************************************************************************)

\* Bound on the number of endpoints of a pool whose rotation is followed.
MaxPool == 3
\* The endpoint URLs of such a pool, by position.
RotationURLs == <<"u1", "u2", "u3">>
\* The longest stretch of returns kept: the largest sum of weights.
WindowMax == MaxPool * 2

\* The pools: distinct URLs, any weights and health flags.
RotationPools ==
  UNION { { [ i \in 1..n |-> [ URL |-> RotationURLs[i], Weight |-> w[i],
                               Healthy |-> h[i] ] ] :
              w \in [ 1..n -> Weights ], h \in [ 1..n -> BOOLEAN ] } :
          n \in 1..MaxPool }

\* The last WindowMax entries of h.
Window(h) ==
  IF Len(h) <= WindowMax THEN h ELSE SubSeq(h, Len(h) - WindowMax + 1, Len(h))

\* The last n entries of h (n <= Len(h)).
LastN(h, n) == SubSeq(h, Len(h) - n + 1, Len(h))

\* How many entries of h equal x.
Count(h, x) == Cardinality({ k \in 1..Len(h) : h[k] = x })

RotInit == lbHist = <<>>
RotIdle == lbHist = <<>>

\* One Next call on the pool, from entry to return.
RotationNext ==
  /\ \A g \in Goroutines : lbPc[g] = "idle"
  /\ LET n == LoadBalancerNext
     IN  /\ current' = n.current
         /\ randomSeed' = n.randomSeed
         /\ connections' = n.connections
         /\ lbHist' = IF n.ret = 0 THEN lbHist ELSE Window(Append(lbHist, n.ret))
  /\ UNCHANGED <<lbAlgo, endpoints, weightedList, lbPc, lbRet, lbMarked>>

\* MarkHealthy / MarkUnhealthy on the pool; a change of a flag starts a new
\* stretch of returns.
RotationMark(url, healthy) ==
  /\ Mark(url, healthy)
  /\ lbHist' = IF endpoints' # endpoints THEN <<>> ELSE lbHist

(***************************************************************************)
(*                        ROUTER RELOAD, STEP BY STEP                      *)
(***************************************************************************)

\* The configurations Reload is called with: the admin handlers have edited
\* the backends since start-up. The third holds a backend whose algorithm
\* loadbalancer.New refuses.
ReloadConfigs ==
  { << [ ID |-> "api", Algorithm |-> "round-robin", Enabled |-> TRUE ],
       [ ID |-> "api2", Algorithm |-> "weighted", Enabled |-> TRUE ] >>,
    << [ ID |-> "api2", Algorithm |-> "least-conn", Enabled |-> TRUE ],
       [ ID |-> "api", Algorithm |-> "random", Enabled |-> FALSE ] >>,
    << [ ID |-> "api", Algorithm |-> "round-robin", Enabled |-> TRUE ],
       [ ID |-> "api3", Algorithm |-> "ip-hash", Enabled |-> TRUE ] >>,
    << [ ID |-> "api2", Algorithm |-> "round-robin", Enabled |-> TRUE ] >> }

\* The backend IDs route handlers look up.
LookupIDs == { "api", "api2", "api3" }

NoLookup == [ op |-> "none", id |-> "", found |-> FALSE, backends |-> << >>,
              afterFailed |-> FALSE ]

\* The backends map router.New or a complete Reload builds from bs.
Installed(bs) == initializeBackends(bs, 1, << >>).backends

\* History: the last Reload returned an error.
LastReloadFailed ==
  admLast.op = "Reload" /\ admLast.status = StatusInternalServerError

\* A reader that does not wait for the writer.
RouterCanRLockNoWait == TRUE

\* r.mutex.RLock() in getBackend: granted when Reload does not hold the
\* write lock.
RouterCanRLock == rdPc = "idle"

RdInit ==
  /\ rdPc = "idle"
  /\ rdIdx = 0
  /\ rdSeen = NoLookup

RdIdle ==
  /\ rdPc = "idle"
  /\ rdIdx = 0
  /\ rdSeen = NoLookup

\* server.New, and the configuration object as the admin handlers have left
\* it when Reload is called.
ReloadInit ==
  /\ cfgRoutes \in InitialRoutes
  /\ cfgBackends \in ReloadConfigs
  /\ \E bs \in InitialBackends : backends = Installed(bs)
  /\ routes = cfgRoutes
  /\ muxRoutes = EnabledRoutes(cfgRoutes)
  /\ reloadOK = FALSE
  /\ pending = NoPending
  /\ admLast = [ op |-> "New", status |-> 0 ]
  /\ admKey = ""

\* Router.Reload, first part: take the write lock and install an empty
\* backends map and an empty route collection.
ReloadLock ==
  /\ rdPc = "idle"
  /\ rdPc' = "init"
  /\ rdIdx' = 1
  /\ backends' = << >>
  /\ routes' = << >>
  /\ UNCHANGED <<cfgRoutes, cfgBackends, muxRoutes, reloadOK, pending, admLast,
                 admKey, rdSeen>>

\* Router.Reload, one turn of the loop over cfg.Backends: initializeBackend;
\* on its error Reload returns it and the deferred unlock runs.
ReloadInitializeBackend ==
  /\ rdPc = "init"
  /\ rdIdx <= Len(cfgBackends)
  /\ LET r == initializeBackends(<< cfgBackends[rdIdx] >>, 1, backends)
     IN  IF r.ok
         THEN /\ backends' = r.backends
              /\ rdIdx' = rdIdx + 1
              /\ UNCHANGED <<rdPc, reloadOK, admLast>>
         ELSE /\ rdPc' = "idle"
              /\ rdIdx' = 0
              /\ reloadOK' = FALSE
              /\ admLast' = [ op |-> "Reload", status |-> StatusInternalServerError ]
              /\ UNCHANGED backends
  /\ UNCHANGED <<cfgRoutes, cfgBackends, muxRoutes, pending, routes, admKey, rdSeen>>

\* Router.Reload, last part: copy the routes, return nil, unlock.
ReloadReturn ==
  /\ rdPc = "init"
  /\ rdIdx > Len(cfgBackends)
  /\ routes' = cfgRoutes
  /\ rdPc' = "idle"
  /\ rdIdx' = 0
  /\ reloadOK' = TRUE
  /\ admLast' = [ op |-> "Reload", status |-> StatusOK ]
  /\ UNCHANGED <<cfgRoutes, cfgBackends, muxRoutes, pending, backends, admKey, rdSeen>>

\* A request handler's r.getBackend(id): the lookup under the read lock.
GetBackendCall(id) ==
  /\ RouterCanRLock
  /\ rdSeen' = [ op |-> "getBackend", id |-> id, found |-> getBackend(id),
                 backends |-> backends, afterFailed |-> LastReloadFailed ]
  /\ UNCHANGED <<cfgRoutes, cfgBackends, muxRoutes, reloadOK, pending, routes,
                 backends, admLast, admKey, rdPc, rdIdx>>

(***************************************************************************)
(*                   RateLimiter.getBucket, STEP BY STEP                   *)
(***************************************************************************)

NoBucketRequest == [ pc |-> "idle", key |-> "", held |-> 0, missed |-> FALSE ]

GbInit ==
  /\ gbReq = [ g \in Goroutines |-> NoBucketRequest ]
  /\ gbBuckets = [ k \in Keys |-> 0 ]
  /\ gbCreated = [ k \in Keys |-> 0 ]

GbIdle ==
  /\ gbReq = [ g \in Goroutines |-> NoBucketRequest ]
  /\ gbBuckets = [ k \in Keys |-> 0 ]
  /\ gbCreated = [ k \in Keys |-> 0 ]

\* A second look that never finds the bucket.
SecondLookBlind(id) == 0

\* `bucket, exists = rl.buckets[key]` after the write lock is taken: the
\* bucket found (0 = none).
SecondLook(id) == id

\* Goroutine g calls Allow(key) (the limiter is enabled, the key is not
\* whitelisted, no sweep is due): getBucket looks the key up under the read
\* lock and releases it.
GetBucketRLock(g, key) ==
  /\ gbReq[g].pc \in { "idle", "done" }
  /\ gbReq' = [ gbReq EXCEPT ![g] =
                  IF gbBuckets[key] # 0
                  THEN [ pc |-> "has", key |-> key, held |-> gbBuckets[key],
                         missed |-> FALSE ]
                  ELSE [ pc |-> "missed", key |-> key, held |-> 0,
                         missed |-> TRUE ] ]
  /\ UNCHANGED <<gbBuckets, gbCreated>>

\* getBucket after a miss: take the write lock, look again, create and store
\* the bucket when there is still none, unlock.
GetBucketLock(g) ==
  /\ gbReq[g].pc = "missed"
  /\ LET key == gbReq[g].key
         existing == SecondLook(gbBuckets[key])
         new == gbCreated[key] + 1
     IN  IF existing # 0
         THEN /\ gbReq' = [ gbReq EXCEPT ![g].pc = "has", ![g].held = existing ]
              /\ UNCHANGED <<gbBuckets, gbCreated>>
         ELSE /\ gbReq' = [ gbReq EXCEPT ![g].pc = "has", ![g].held = new ]
              /\ gbBuckets' = [ gbBuckets EXCEPT ![key] = new ]
              /\ gbCreated' = [ gbCreated EXCEPT ![key] = new ]

\* bucket.Allow(1) on the bucket getBucket returned.
BucketAllow(g) ==
  /\ gbReq[g].pc = "has"
  /\ gbReq' = [ gbReq EXCEPT ![g].pc = "done" ]
  /\ UNCHANGED <<gbBuckets, gbCreated>>

(***************************************************************************)
(*                             SPECIFICATIONS                              *)
(***************************************************************************)

vars == <<routeVars, lbVars, cbVars, rtVars, rlVars, admVars, hcVars, valVars, rotVars, limVars, rdVars, gbVars>>

\* The route table alone: FindRoute calls on a table drawn at start.
InitRoute == RouteInit /\ LBIdle /\ CBIdle /\ RouterIdle /\ RLIdle /\ AdminIdle /\ HCIdle /\ ValIdle /\ RotIdle /\ LimIdle /\ RdIdle /\ GbIdle
NextRoute ==
  \E path \in PathSet, method \in RequestMethods :
    CallFindRoute(path, method) /\ UNCHANGED <<lbVars, cbVars, rtVars, rlVars, admVars, hcVars, valVars, rotVars, limVars, rdVars, gbVars>>
SpecRoute == InitRoute /\ [][NextRoute]_vars

\* The running server dispatching client requests over a table drawn at start.
InitDispatch == RouteInit /\ LBIdle /\ CBIdle /\ RouterIdle /\ RLIdle /\ AdminIdle /\ HCIdle /\ ValIdle /\ RotIdle /\ LimIdle /\ RdIdle /\ GbIdle
NextDispatch ==
  \E path \in PathSet, method \in RequestMethods :
    ServeRequest(path, method) /\ UNCHANGED <<lbVars, cbVars, rtVars, rlVars, admVars, hcVars, valVars, rotVars, limVars, rdVars, gbVars>>
SpecDispatch == InitDispatch /\ [][NextDispatch]_vars

\* One pool alone: goroutines calling Next while health flags are changed.
InitLB == LBInit /\ RouteIdle /\ CBIdle /\ RouterIdle /\ RLIdle /\ AdminIdle /\ HCIdle /\ ValIdle /\ RotIdle /\ LimIdle /\ RdIdle /\ GbIdle
NextLB ==
  \/ \E g \in Goroutines : NextCall(g) /\ UNCHANGED <<routeVars, cbVars, rtVars, rlVars, admVars, hcVars, valVars, rotVars, limVars, rdVars, gbVars>>
  \/ \E g \in Goroutines : NextReturn(g) /\ UNCHANGED <<routeVars, cbVars, rtVars, rlVars, admVars, hcVars, valVars, rotVars, limVars, rdVars, gbVars>>
  \/ \E u \in URLs : MarkHealthy(u) /\ UNCHANGED <<routeVars, cbVars, rtVars, rlVars, admVars, hcVars, valVars, rotVars, limVars, rdVars, gbVars>>
  \/ \E u \in URLs : MarkUnhealthy(u) /\ UNCHANGED <<routeVars, cbVars, rtVars, rlVars, admVars, hcVars, valVars, rotVars, limVars, rdVars, gbVars>>
SpecLB == InitLB /\ [][NextLB]_vars

\* One least-connections pool alone, its counts growing to the int32 limit.
InitLeastConn ==
  /\ LBInit /\ lbAlgo = "least-conn" /\ Len(endpoints) >= 1
  /\ RouteIdle /\ CBIdle /\ RouterIdle /\ RLIdle /\ AdminIdle /\ HCIdle /\ ValIdle /\ RotIdle /\ LimIdle /\ RdIdle /\ GbIdle
NextLeastConn ==
  \/ \E g \in Goroutines : LeastConnectionsNextCall(g) /\ UNCHANGED <<routeVars, cbVars, rtVars, rlVars, admVars, hcVars, valVars, rotVars, limVars, rdVars, gbVars>>
  \/ \E g \in Goroutines : NextReturn(g) /\ UNCHANGED <<routeVars, cbVars, rtVars, rlVars, admVars, hcVars, valVars, rotVars, limVars, rdVars, gbVars>>
  \/ \E u \in URLs : MarkHealthy(u) /\ UNCHANGED <<routeVars, cbVars, rtVars, rlVars, admVars, hcVars, valVars, rotVars, limVars, rdVars, gbVars>>
  \/ \E u \in URLs : MarkUnhealthy(u) /\ UNCHANGED <<routeVars, cbVars, rtVars, rlVars, admVars, hcVars, valVars, rotVars, limVars, rdVars, gbVars>>
SpecLeastConn == InitLeastConn /\ [][NextLeastConn]_vars

\* One breaker alone: concurrent callers of Call while time passes.
InitCB == CBInit /\ RouteIdle /\ LBIdle /\ RouterIdle /\ RLIdle /\ AdminIdle /\ HCIdle /\ ValIdle /\ RotIdle /\ LimIdle /\ RdIdle /\ GbIdle
NextCB ==
  \/ Tick /\ UNCHANGED <<routeVars, lbVars, rtVars, rlVars, admVars, hcVars, valVars, rotVars, limVars, rdVars, gbVars>>
  \/ \E c \in Callers : CallDisabled(c) /\ UNCHANGED <<routeVars, lbVars, rtVars, rlVars, admVars, hcVars, valVars, rotVars, limVars, rdVars, gbVars>>
  \/ \E c \in Callers : FnReturnDirect(c) /\ UNCHANGED <<routeVars, lbVars, rtVars, rlVars, admVars, hcVars, valVars, rotVars, limVars, rdVars, gbVars>>
  \/ \E c \in Callers : CanExecute(c) /\ UNCHANGED <<routeVars, lbVars, rtVars, rlVars, admVars, hcVars, valVars, rotVars, limVars, rdVars, gbVars>>
  \/ \E c \in Callers : CanExecuteUpgrade(c) /\ UNCHANGED <<routeVars, lbVars, rtVars, rlVars, admVars, hcVars, valVars, rotVars, limVars, rdVars, gbVars>>
  \/ \E c \in Callers, success \in BOOLEAN, d \in 0..1 :
        RecordResult(c, success, d) /\ UNCHANGED <<routeVars, lbVars, rtVars, rlVars, admVars, hcVars, valVars, rotVars, limVars, rdVars, gbVars>>
SpecCB == InitCB /\ [][NextCB]_vars

\* The router serving requests for one backend while time passes.
InitRouter ==
  /\ RouterInit /\ LBInit /\ RouteIdle /\ CBIdle /\ RLIdle /\ AdminIdle /\ HCIdle /\ ValIdle /\ RotIdle /\ LimIdle /\ RdIdle /\ GbIdle
  /\ \A i \in 1..Len(endpoints) : endpoints[i].Weight = 1
NextRouter ==
  \/ Tick /\ UNCHANGED <<routeVars, lbVars, rtVars, rlVars, admVars, hcVars, valVars, rotVars, limVars, rdVars, gbVars>>
  \/ \E id \in RouteBackends, outcome \in UpstreamOutcomes, delay \in 0..MaxDelay :
        Handle(id, outcome, delay) /\ UNCHANGED <<routeVars, cbVars, rlVars, admVars, hcVars, valVars, rotVars, limVars, rdVars, gbVars>>
SpecRouter == InitRouter /\ [][NextRouter]_vars

\* One route's middleware chain with its rate limiter, while time passes.
InitRL == RouteIdle /\ LBIdle /\ CBIdle /\ RouterIdle /\ RLInit /\ AdminIdle /\ HCIdle /\ ValIdle /\ RotIdle /\ LimIdle /\ RdIdle /\ GbIdle
NextRL ==
  \/ Tick /\ UNCHANGED <<routeVars, lbVars, rtVars, rlVars, admVars, hcVars, valVars, rotVars, limVars, rdVars, gbVars>>
  \/ \E key \in Keys, authenticated \in BOOLEAN, inner \in { StatusOK, StatusServiceUnavailable } :
        RouteRequest(key, authenticated, inner)
          /\ UNCHANGED <<routeVars, lbVars, cbVars, rtVars, admVars, hcVars, valVars, rotVars, limVars, rdVars, gbVars>>
SpecRL == InitRL /\ [][NextRL]_vars

\* The limiter behind middleware.RateLimit alone: requests of several users
\* and direct AllowN calls while time passes.
InitLimiter ==
  /\ RouteIdle /\ LBIdle /\ CBIdle /\ RouterIdle /\ AdminIdle /\ HCIdle /\ ValIdle /\ RotIdle
  /\ RLInit /\ rlConfig.Enabled /\ authConfig = [ Enabled |-> FALSE, Required |-> FALSE ]
  /\ LimInit /\ RdIdle /\ GbIdle
NextLimiter ==
  \/ Tick /\ UNCHANGED <<routeVars, lbVars, rtVars, rlVars, admVars, hcVars, valVars, rotVars, limVars, rdVars, gbVars>>
  \/ \E req \in Requests :
        RateLimit(req) /\ UNCHANGED <<routeVars, lbVars, cbVars, rtVars, admVars, hcVars, valVars, rotVars, rdVars, gbVars>>
  \/ \E key \in LimiterKeys, n \in 0..MaxN :
        AllowN(key, n) /\ UNCHANGED <<routeVars, lbVars, cbVars, rtVars, admVars, hcVars, valVars, rotVars, rdVars, gbVars>>
SpecLimiter == InitLimiter /\ [][NextLimiter]_vars

\* Router.Reload in steps while request handlers look backends up.
rdOthers == <<reqPath, reqMethod, found, routePc, served, lbVars, cbVars,
              rtLast, rtRequests, rtFailures, rtTripTime, rlVars, hcVars,
              valVars, rotVars, limVars, gbVars>>
InitReload ==
  /\ reqPath = << >> /\ reqMethod = "" /\ found = 0 /\ routePc = "init"
  /\ served = 0
  /\ rtLast = NoRequest /\ rtRequests = 0 /\ rtFailures = 0 /\ rtTripTime = 0
  /\ LBIdle /\ CBIdle /\ RLIdle /\ HCIdle /\ ValIdle /\ RotIdle /\ LimIdle /\ GbIdle
  /\ ReloadInit /\ RdInit
NextReload ==
  \/ ReloadLock /\ UNCHANGED rdOthers
  \/ ReloadInitializeBackend /\ UNCHANGED rdOthers
  \/ ReloadReturn /\ UNCHANGED rdOthers
  \/ \E id \in LookupIDs : GetBackendCall(id) /\ UNCHANGED rdOthers
SpecReload == InitReload /\ [][NextReload]_vars

\* Concurrent Allow calls of one limiter, getBucket in steps.
InitGetBucket ==
  /\ RouteIdle /\ LBIdle /\ CBIdle /\ RouterIdle /\ RLIdle /\ AdminIdle /\ HCIdle
  /\ ValIdle /\ RotIdle /\ LimIdle /\ RdIdle
  /\ GbInit
NextGetBucket ==
  \/ \E g \in Goroutines, key \in Keys :
        GetBucketRLock(g, key)
          /\ UNCHANGED <<routeVars, lbVars, cbVars, rtVars, rlVars, admVars, hcVars, valVars, rotVars, limVars, rdVars>>
  \/ \E g \in Goroutines :
        GetBucketLock(g)
          /\ UNCHANGED <<routeVars, lbVars, cbVars, rtVars, rlVars, admVars, hcVars, valVars, rotVars, limVars, rdVars>>
  \/ \E g \in Goroutines :
        BucketAllow(g)
          /\ UNCHANGED <<routeVars, lbVars, cbVars, rtVars, rlVars, admVars, hcVars, valVars, rotVars, limVars, rdVars>>
SpecGetBucket == InitGetBucket /\ [][NextGetBucket]_vars

\* The running server: admin calls editing the configuration, reloads, and
\* client requests through the main mux.
admOthers == <<reqPath, reqMethod, found, routePc, served, lbVars, cbVars,
               rtLast, rtRequests, rtFailures, rtTripTime, rlVars, hcVars,
               valVars, rotVars, limVars, rdVars, gbVars>>
InitAdmin ==
  /\ reqPath = << >> /\ reqMethod = "" /\ found = 0 /\ routePc = "init"
  /\ served = 0
  /\ rtLast = NoRequest /\ rtRequests = 0 /\ rtFailures = 0 /\ rtTripTime = 0
  /\ LBIdle /\ CBIdle /\ RLIdle /\ AdminInit /\ HCIdle /\ ValIdle /\ RotIdle /\ LimIdle /\ RdIdle /\ GbIdle
NextAdmin ==
  \/ \E key \in HeaderKeys :
        APIKeyAuth(key, "CreateRoute", \E body \in RouteBodies : CreateRoute(body))
          /\ UNCHANGED admOthers
  \/ \E key \in HeaderKeys :
        APIKeyAuth(key, "UpdateRoute",
                   \E id \in RouteIDs, body \in RouteBodies : UpdateRoute(id, body))
          /\ UNCHANGED admOthers
  \/ \E key \in HeaderKeys :
        APIKeyAuth(key, "DeleteRoute", \E id \in RouteIDs : DeleteRoute(id))
          /\ UNCHANGED admOthers
  \/ \E key \in HeaderKeys :
        APIKeyAuth(key, "GetRoute", \E id \in RouteIDs : GetRoute(id))
          /\ UNCHANGED admOthers
  \/ \E key \in HeaderKeys :
        APIKeyAuth(key, "CreateBackend",
                   \E body \in BackendBodies : CreateBackend(body))
          /\ UNCHANGED admOthers
  \/ \E key \in HeaderKeys :
        APIKeyAuth(key, "Reload", ReloadConfig) /\ UNCHANGED admOthers
  \/ \E path \in ClientPaths : RequestMatch(path) /\ UNCHANGED admOthers
  \/ RequestServe /\ UNCHANGED admOthers
\* HealthCheckConfig.Validate alone, on every policy of the bounded set.
InitPolicy ==
  /\ RouteIdle /\ LBIdle /\ CBIdle /\ RouterIdle /\ RLIdle /\ AdminIdle /\ HCIdle
  /\ PolicyInit /\ RotIdle /\ LimIdle /\ RdIdle /\ GbIdle
NextPolicy ==
  HealthCheckValidateCall /\ UNCHANGED <<routeVars, lbVars, cbVars, rtVars, rlVars, admVars, hcVars, rotVars, limVars, rdVars, gbVars>>
SpecPolicy == InitPolicy /\ [][NextPolicy]_vars

\* One round-robin or weighted pool: successive Next calls while health
\* flags are changed.
InitRotation ==
  /\ RouteIdle /\ CBIdle /\ RouterIdle /\ RLIdle /\ AdminIdle /\ HCIdle /\ ValIdle
  /\ lbAlgo \in { "round-robin", "weighted" }
  /\ endpoints \in RotationPools
  /\ weightedList = IF lbAlgo = "weighted" THEN buildWeightedList(endpoints, 1) ELSE <<>>
  /\ current = 0
  /\ randomSeed = 0
  /\ connections = [ u \in URLs |-> 0 ]
  /\ lbPc = [ g \in Goroutines |-> "idle" ]
  /\ lbRet = [ g \in Goroutines |-> 0 ]
  /\ lbMarked = FALSE
  /\ RotInit /\ LimIdle /\ RdIdle /\ GbIdle
NextRotation ==
  \/ RotationNext /\ UNCHANGED <<routeVars, cbVars, rtVars, rlVars, admVars, hcVars, valVars, limVars, rdVars, gbVars>>
  \/ \E i \in 1..MaxPool, healthy \in BOOLEAN :
        RotationMark(RotationURLs[i], healthy)
          /\ UNCHANGED <<routeVars, cbVars, rtVars, rlVars, admVars, hcVars, valVars, limVars, rdVars, gbVars>>
SpecRotation == InitRotation /\ [][NextRotation]_vars

SpecAdmin == InitAdmin /\ [][NextAdmin]_vars

\* The health checker with its workers, the upstream endpoints it probes
\* and client requests selecting from the pool of backend "api".
hcOthers == <<routeVars, cbVars, rtVars, rlVars, admVars, valVars, rotVars, limVars, rdVars, gbVars>>
InitHealth ==
  /\ RouteIdle /\ CBIdle /\ RouterIdle /\ RLIdle /\ AdminIdle
  /\ LBInit /\ lbAlgo = "round-robin" /\ endpoints \in HCPools
  /\ HCInit /\ ValIdle /\ RotIdle /\ LimIdle /\ RdIdle /\ GbIdle
NextHealth ==
  \/ Start /\ UNCHANGED <<hcOthers, lbVars>>
  \/ Stop /\ UNCHANGED <<hcOthers, lbVars>>
  \/ ParentCancel /\ UNCHANGED <<hcOthers, lbVars>>
  \/ \E b \in HCBackends : TickerFire(b) /\ UNCHANGED <<hcOthers, lbVars>>
  \/ \E u \in URLs : UpstreamChange(u) /\ UNCHANGED <<hcOthers, lbVars>>
  \/ \E b \in HCBackends : ProbeBegin(b) /\ UNCHANGED <<hcOthers, lbVars>>
  \/ \E b \in HCBackends, aborted \in BOOLEAN :
        ProbeEnd(b, aborted) /\ UNCHANGED <<hcOthers, lbVars>>
  \/ \E b \in HCBackends : WorkerExit(b) /\ UNCHANGED <<hcOthers, lbVars>>
  \/ HealthGetAll /\ UNCHANGED <<hcOthers, lbVars>>
  \/ HealthRespond /\ UNCHANGED <<hcOthers, lbVars>>
  \/ ClientNext /\ UNCHANGED hcOthers
SpecHealth == InitHealth /\ [][NextHealth]_vars

\* main validating the configuration it loaded.
InitVal ==
  /\ RouteIdle /\ LBIdle /\ CBIdle /\ RouterIdle /\ RLIdle /\ AdminIdle /\ HCIdle
  /\ ValInit /\ RotIdle /\ LimIdle /\ RdIdle /\ GbIdle
NextVal ==
  ValidateCall /\ UNCHANGED <<routeVars, lbVars, cbVars, rtVars, rlVars, admVars, hcVars, rotVars, limVars, rdVars, gbVars>>
SpecVal == InitVal /\ [][NextVal]_vars

(***************************************************************************)
(*                                 CLAIMS                                  *)
(***************************************************************************)

\* ---- claims on the route table ----

\* The routes of the table that match the last request (by position).
Matching == { i \in 1..Len(routes) : Match(routes[i], reqPath, reqMethod) }

\* C1: a route returned by FindRoute is enabled, its method list contains the
\* request method or "*", its path pattern matches the path, and no other
\* route of the table that also matches has a strictly greater priority.
C1_FindRouteSound ==
  (routePc = "called" /\ found # 0) =>
    /\ found \in 1..Len(routes)
    /\ routes[found].Enabled
    /\ \E i \in 1..Len(routes[found].Method) :
          routes[found].Method[i] \in { reqMethod, "*" }
    /\ matchPath(routes[found].Path, reqPath)
    /\ \A j \in Matching : routes[j].Priority <= routes[found].Priority

\* C1 witness: FindRoute returned the second route, which beats an earlier
\* matching route of lower priority.
C1_Witness ==
  /\ routePc = "called" /\ found = 2
  /\ 1 \in Matching
  /\ routes[1].Priority < routes[2].Priority

\* C2: FindRoute returns nil exactly when no route matches; among several
\* matching routes of the highest priority it returns the first of the list.
C2_FindRouteFirstBest ==
  routePc = "called" =>
    /\ (found = 0) <=> (Matching = {})
    /\ found # 0 =>
         /\ found \in Matching
         /\ \A j \in Matching :
              \/ routes[j].Priority < routes[found].Priority
              \/ (routes[j].Priority = routes[found].Priority /\ found <= j)

\* C2 witness: two matching routes tie on the highest priority and the
\* earlier one is returned.
C2_Witness ==
  /\ routePc = "called" /\ found = 1
  /\ 2 \in Matching
  /\ routes[2].Priority = routes[1].Priority

\* ---- claims on the load balancers ----

\* C3: under any interleaving of Next, MarkHealthy and MarkUnhealthy, an
\* endpoint that Next is about to return is flagged healthy in the pool.
C3_ReturnedEndpointHealthy ==
  \A g \in Goroutines :
    (lbPc[g] = "inNext" /\ lbRet[g] # 0) =>
      /\ lbRet[g] \in 1..Len(endpoints)
      /\ endpoints[lbRet[g]].Healthy

\* C3 witness: after a health flag was changed by a Mark call, a goroutine
\* is returning an endpoint from a pool that also holds an unhealthy one.
C3_Witness ==
  /\ lbMarked
  /\ \E g \in Goroutines : lbPc[g] = "inNext" /\ lbRet[g] # 0
  /\ \E i \in 1..Len(endpoints) : ~endpoints[i].Healthy

ProbesInFlight ==
  { c \in Callers : cbPc[c] = "fn" /\ cbAdm[c] \in { StateOpen, StateHalfOpen } }

\* C5, first part: an admission attempt made on an Open breaker before
\* next_attempt_after is rejected and leaves the breaker Open.
C5_RejectedBeforeDeadline ==
  (cbOp.op = "CanExecute" /\ cbOp.before = StateOpen /\ cbOp.early) =>
    (~cbOp.ok /\ state = StateOpen)

\* C5, second part: an admission attempt made on an Open breaker once
\* now >= next_attempt_after is admitted and moves the breaker to Half-Open.
C5_AdmittedFromDeadline ==
  (cbOp.op = "CanExecute" /\ cbOp.before = StateOpen /\ ~cbOp.early) =>
    (cbOp.ok /\ state = StateHalfOpen)

\* C5, third part: the transition from Open to Half-Open admits exactly one
\* request, even when several attempts race.
C5_TransitionAdmitsOne == openAdmits <= 1

\* C5: while Open every attempt before next_attempt_after is rejected and
\* leaves the breaker Open; once now >= next_attempt_after the next attempt
\* is admitted and moves the breaker to Half-Open; that transition admits
\* exactly one request even when several attempts race.
C5_OpenAdmission ==
  /\ C5_RejectedBeforeDeadline
  /\ C5_AdmittedFromDeadline
  /\ C5_TransitionAdmitsOne

\* C6: while the breaker is Half-Open the number of admitted probes whose
\* outcome has not been recorded never exceeds max_requests.
C6_ProbesBounded ==
  state = StateHalfOpen => Cardinality(ProbesInFlight) <= cbConfig.MaxRequests

\* C7: starting from Half-Open, once max_requests successes have been
\* recorded with no failure in between the breaker is Closed; after fewer
\* successes it is still Half-Open.
C7_ClosesAfterMaxSuccesses ==
  /\ state = StateHalfOpen => hoSuccesses < cbConfig.MaxRequests
  /\ (cbOp.op = "RecordResult" /\ cbOp.ok /\ cbOp.before = StateHalfOpen
        /\ hoSuccesses < cbConfig.MaxRequests) => state = StateHalfOpen

\* C8: a failure recorded while the breaker is Half-Open moves it to Open
\* with next_attempt_after = (time of the transition) + timeout, which is no
\* earlier than the recorded failure time + timeout.
C8_HalfOpenFailureOpens ==
  (cbOp.op = "RecordResult" /\ ~cbOp.ok /\ cbOp.before = StateHalfOpen) =>
    /\ state = StateOpen
    /\ nextAttemptTime = now + cbConfig.Timeout
    /\ nextAttemptTime >= lastFailureTime + cbConfig.Timeout

\* C8 witness: a probe has just failed in Half-Open.
C8_Witness ==
  /\ cbOp.op = "RecordResult" /\ ~cbOp.ok /\ cbOp.before = StateHalfOpen
  /\ state = StateOpen

\* C9: while Closed, recording a failure opens the breaker, with
\* next_attempt_after = now + timeout, if and only if the current window,
\* counting that outcome, has requests >= minimum_requests and
\* failures/requests >= failure_ratio; recording a success never opens it.
C9_ClosedTripsOnRatio ==
  (cbOp.op = "RecordResult" /\ cbOp.before = StateClosed) =>
    IF cbOp.ok
    THEN state = StateClosed
    ELSE /\ state \in { StateClosed, StateOpen }
         /\ (state = StateOpen) <=>
              /\ requests >= cbConfig.MinimumRequests
              /\ failures * cbConfig.FailureRatio[2]
                   >= cbConfig.FailureRatio[1] * requests
         /\ state = StateOpen => nextAttemptTime = now + cbConfig.Timeout

\* C9 witness: a failure has just opened a Closed breaker whose window also
\* holds a success (the ratio was reached, not every request failed).
C9_Witness ==
  /\ cbOp.op = "RecordResult" /\ ~cbOp.ok /\ cbOp.before = StateClosed
  /\ state = StateOpen
  /\ failures < requests

\* C9 second witness: a failure recorded in Closed with enough requests in
\* the window left the breaker Closed because the ratio was not reached.
C9_WitnessStaysClosed ==
  /\ cbOp.op = "RecordResult" /\ ~cbOp.ok /\ cbOp.before = StateClosed
  /\ state = StateClosed
  /\ requests >= cbConfig.MinimumRequests

\* ---- claims on the router ----

\* C10: with an enabled breaker (minimum_requests 3, failure_ratio 0.6) on a
\* backend, once the first three requests forwarded to it have all failed,
\* every further request routed to it before the breaker timeout has elapsed
\* is answered 503 and is not forwarded to the upstream.
C10_TrippedBackendAnswers503 ==
  rtLast.tripped => (rtLast.status = StatusServiceUnavailable /\ ~rtLast.forwarded)

\* C11: a forwarded request whose upstream has not answered within the
\* route's timeout is aborted and the client receives 504 Gateway Timeout.
C11_LateUpstreamAnswers504 ==
  (rtLast.forwarded /\ rtLast.late) =>
    rtLast.status = StatusGatewayTimeout

\* C12: for every rate-limited key and every interval, the number of
\* requests admitted for the key within the interval is at most
\* capacity + (length of the interval) * rate, also when the key's bucket
\* was evicted by the sweep and created again in between. With i <= j two
\* admissions of the key, j - i + 1 admissions lie in [time i, time j].
C12_AdmissionsBounded ==
  rlConfig.Enabled =>
    \A k \in Keys \ rlConfig.WhiteList :
      \A i, j \in 1..Len(rlLog[k]) :
        i <= j =>
          (j - i + 1) * OneToken
            <= rlConfig.BurstSize * OneToken
                 + (rlLog[k][j] - rlLog[k][i]) * rlConfig.Rate

\* C13: when Router.Reload fails it reports the error and the router's
\* backends and routes are exactly what they were before the call.
C13_FailedReloadChangesNothing ==
  (admLast.op = "Reload" /\ admLast.status # StatusOK) =>
    /\ admLast.status = StatusInternalServerError
    /\ admLast.kept

\* C14: a client request that arrives after a successful Reload is dispatched
\* by the reloaded route table (Router.routes): the route that serves it is
\* an enabled route of that table, and when that table has an enabled route
\* for the request's path the request is served, not answered 404.
C14_RequestsFollowReloadedTable ==
  (admLast.op = "Request" /\ reloadOK /\ ~admLast.reloaded) =>
    /\ admLast.route # "" =>
          \E i \in 1..Len(routes) :
            routes[i].Enabled /\ routes[i].ID = admLast.route
              /\ IsPrefix(routes[i].Path, admLast.path)
    /\ MuxMatch(EnabledRoutes(routes), admLast.path) # 0 =>
          admLast.status # StatusNotFound

\* C15: a request that was matched to a route whose backend was available,
\* and during which a Reload ran, is not answered with a 5xx.
C15_MatchedRequestSurvivesReload ==
  (admLast.op = "Request" /\ admLast.reloaded /\ admLast.backendOK) =>
    admLast.status < 500

\* C16: Checker.Stop returns only after every health-check worker goroutine
\* has exited, and no probe is started or still running after Stop has
\* returned.
C16_StopWaitsForWorkers ==
  hcStopped =>
    /\ \A b \in HCBackends : hcPc[b] \in { "none", "exited" }
    /\ ~probeAfterStop

\* C17: for a least-connections pool, once every request that selected an
\* endpoint through Next has finished, the active-connection count of every
\* endpoint is zero. (A request is handled within one step, so between
\* steps every request has finished.)
C17_CountsZeroWhenQuiet ==
  (lbAlgo = "least-conn" /\ \A g \in Goroutines : lbPc[g] = "idle") =>
    \A u \in URLs : connections[u] = 0

\* C18: when a probe round of backend "api" completes (checker running),
\* every probed endpoint's Healthy flag in the backend's load-balancer pool
\* is the probe's result: healthy after a success, unhealthy after a
\* failure.
C18_ProbeResultMarksPool ==
  (hcLast.op = "Probe" /\ hcLast.backend = "api" /\ hcLast.live) =>
    \A i \in 1..Len(endpoints) :
      endpoints[i].Healthy = hcLast.results[endpoints[i].URL]

\* C19: for a route with both a rate-limit policy and an auth policy, a
\* request that both would deny is answered 429, not 401.
C19_RateLimitBeforeAuth ==
  (rlConfig.Enabled /\ authConfig.Enabled
     /\ mwLast.authDenies /\ mwLast.limitDenies) =>
    mwLast.status = StatusTooManyRequests

\* C20: after any sequence of successful admin CreateRoute, UpdateRoute,
\* DeleteRoute and CreateBackend calls the configuration still satisfies
\* the invariants of initial load: route IDs unique, backend IDs unique,
\* every route's backend names an existing backend.
C20_ConfigStaysValid == ConfigValidate(cfgRoutes, cfgBackends)

\* ---- claims on configuration validation ----

\* C21: after Config.Validate returns success, every route and backend field
\* that was zero and has a default holds the default in the configuration
\* that was validated: route timeout 30s; for an enabled health check,
\* interval 30s and timeout 5s; for an enabled breaker, max_requests 3,
\* interval 60s, timeout 30s, failure_ratio 0.6 and minimum_requests 3.
C21_DefaultsStored ==
  valResult = "ok" =>
    /\ \A i \in 1..Len(valCfg.Routes) :
         valInput.Routes[i].Timeout = 0 =>
           valCfg.Routes[i].Timeout = DefaultRouteTimeout
    /\ \A i \in 1..Len(valCfg.Backends) :
         LET h0 == valInput.Backends[i].HealthCheck
             h == valCfg.Backends[i].HealthCheck
             c0 == valInput.Backends[i].CircuitBreaker
             c == valCfg.Backends[i].CircuitBreaker
         IN  /\ (h0.Enabled /\ h0.Interval = 0) => h.Interval = DefaultHealthInterval
             /\ (h0.Enabled /\ h0.Timeout = 0) => h.Timeout = DefaultHealthTimeout
             /\ (c0.Enabled /\ c0.MaxRequests = 0) => c.MaxRequests = DefaultMaxRequests
             /\ (c0.Enabled /\ c0.Interval = 0) => c.Interval = DefaultBreakerInterval
             /\ (c0.Enabled /\ c0.Timeout = 0) => c.Timeout = DefaultBreakerTimeout
             /\ (c0.Enabled /\ c0.FailureRatio = ZeroRatio) =>
                  c.FailureRatio = DefaultFailureRatio
             /\ (c0.Enabled /\ c0.MinimumRequests = 0) =>
                  c.MinimumRequests = DefaultMinimumRequests

\* ---- claims on the admin API ----

\* The kinds of admin request.
AdminOps == { "CreateRoute", "UpdateRoute", "DeleteRoute", "CreateBackend",
              "Reload", "GetRoute" }

\* C22: an admin request whose X-API-Key header is missing or is not the
\* configured key is answered 401 and changes nothing: not the
\* configuration's routes or backends, not the router's backends or route
\* table, and no reload is recorded.
C22_BadKeyRejected ==
  [][ (admLast'.op \in AdminOps /\ admKey' # AdminAPIKey) =>
        /\ admLast'.status = StatusUnauthorized
        /\ UNCHANGED <<cfgRoutes, cfgBackends, routes, backends, reloadOK,
                       muxRoutes>> ]_vars
\* A create request without a key was answered, and one with a wrong key
\* after the configuration had been edited.
C22_Witness ==
  /\ admLast.op \in { "CreateRoute", "Reload" }
  /\ admLast.status = StatusUnauthorized
  /\ admKey \in { "", "wrong" }
  /\ Len(cfgBackends) > 1

\* ---- claims on the health endpoint ----

C24_RouteCrudConsistent ==
  [][ /\ (admLast.op = "CreateRoute" /\ admLast.status = StatusCreated
            /\ admLast'.op = "GetRoute"
            /\ admLast'.status # StatusUnauthorized
            /\ admLast'.id = admLast.id) =>
          (admLast'.status = StatusOK /\ admLast'.route = admLast.route)
      /\ (admLast.op = "DeleteRoute" /\ admLast.status = StatusNoContent
            /\ admLast'.op = "GetRoute"
            /\ admLast'.status # StatusUnauthorized
            /\ admLast'.id = admLast.id) =>
          admLast'.status = StatusNotFound
      /\ (admLast'.op \in { "GetRoute", "UpdateRoute", "DeleteRoute" }
            /\ admLast'.status # StatusUnauthorized
            /\ admLast' # admLast
            /\ FirstWithID(cfgRoutes, admLast'.id) = 0) =>
          (admLast'.status = StatusNotFound /\ UNCHANGED cfgRoutes) ]_vars

\* ---- claims on request dispatch ----

\* C25: the route that serves a client request in the running server is the
\* route FindRoute returns for the request's path and method (none when
\* FindRoute returns nil).
C25_ServedByFindRoute == routePc = "served" => served = found

\* ---- claims on the circuit breaker's transitions ----

\* The state changes the breaker's state machine allows.
AllowedTransitions ==
  { <<StateClosed, StateOpen>>, <<StateOpen, StateHalfOpen>>,
    <<StateHalfOpen, StateClosed>>, <<StateHalfOpen, StateOpen>> }

\* C26: under any interleaving of concurrent calls, every change of the
\* breaker's state is Closed to Open, Open to Half-Open, Half-Open to Closed
\* or Half-Open to Open.
C26_OnlyAllowedTransitions ==
  [][ state' # state => <<state, state'>> \in AllowedTransitions ]_vars

\* C27: the outcome of a request admitted while the breaker was Closed is
\* not counted as a Half-Open probe result: recorded while the breaker is
\* Half-Open, it neither reopens nor closes the breaker and leaves the
\* consecutive-success count as it was.
C27_OutcomeBelongsToAdmission ==
  [][ \A c \in Callers :
        (cbPc[c] = "fn" /\ cbPc'[c] = "idle" /\ cbAdm[c] = StateClosed
           /\ state = StateHalfOpen) =>
          (state' = StateHalfOpen
             /\ consecutiveSuccesses' = consecutiveSuccesses) ]_vars

\* C28: when the breaker moves from Half-Open to Closed, requests, failures,
\* consecutive successes and consecutive failures are all zero right after
\* the transition.
C28_CloseClearsCounters ==
  [][ (state = StateHalfOpen /\ state' = StateClosed) =>
        /\ requests' = 0
        /\ failures' = 0
        /\ consecutiveSuccesses' = 0
        /\ consecutiveFailures' = 0 ]_vars

\* ---- claims on the rotation of a pool ----

\* C29: round-robin. While the healthy set does not change and has N
\* members, any N consecutive Next calls return each healthy endpoint exactly
\* once, and successive calls go through the healthy endpoints in configured
\* order, cyclically.
C29_RoundRobinRotates ==
  lbAlgo = "round-robin" =>
    LET hp == HealthyPositions(endpoints)
        N == Len(hp)
    IN  /\ (N >= 1 /\ Len(lbHist) >= N) =>
             \A k \in 1..N : Count(LastN(lbHist, N), hp[k]) = 1
        /\ \A j \in 1..(Len(lbHist) - 1) :
             \E k \in 1..N : lbHist[j] = hp[k] /\ lbHist[j + 1] = hp[(k % N) + 1]

\* C30: weighted. While no health transition occurs, any W consecutive Next
\* calls, W being the sum of the weights of the healthy endpoints, return
\* each healthy endpoint exactly Weight times; and the index list always
\* holds exactly the healthy endpoints, each Weight times.
C30_WeightedRotates ==
  lbAlgo = "weighted" =>
    LET W == Len(buildWeightedList(endpoints, 1))
    IN  /\ \A i \in 1..Len(endpoints) :
             Count(weightedList, i) =
               IF endpoints[i].Healthy THEN endpoints[i].Weight ELSE 0
        /\ (W >= 1 /\ Len(lbHist) >= W) =>
             \A i \in 1..Len(endpoints) :
               Count(LastN(lbHist, W), i) =
                 IF endpoints[i].Healthy THEN endpoints[i].Weight ELSE 0

\* ---- claims on least-connections ----

\* C31: least-connections. A Next call returns the healthy endpoint with the
\* smallest active count, the first in configured order on a tie, and adds
\* one to that endpoint's count only; when there is no healthy endpoint it
\* returns nil and changes no count.
C31_LeastConnPicksSmallest ==
  [][ \A g \in Goroutines :
        (lbAlgo = "least-conn" /\ lbPc[g] = "idle" /\ lbPc'[g] = "inNext") =>
          LET H == { i \in 1..Len(endpoints) : endpoints[i].Healthy }
          IN  IF H = {}
              THEN lbRet'[g] = 0 /\ connections' = connections
              ELSE \E i \in H :
                     /\ \A j \in H :
                          \/ connections[endpoints[i].URL] < connections[endpoints[j].URL]
                          \/ /\ connections[endpoints[i].URL] = connections[endpoints[j].URL]
                             /\ i <= j
                     /\ lbRet'[g] = i
                     /\ connections' =
                          [ connections EXCEPT ![endpoints[i].URL] = @ + 1 ]
    ]_vars

\* ---- claims on the rate limiter ----

\* C32: a request denied by the token bucket consumes no tokens. After a
\* denied Allow the bucket of the request's key holds the refilled count
\* min(capacity, tokens + elapsed * rate) of the bucket it found, with
\* nothing subtracted.
C32_DenialConsumesNothing ==
  [][ (now' = now /\ limLast'.op = "Allow" /\ ~limLast'.ok) =>
        LET k == limLast'.key
        IN  /\ k \in DOMAIN buckets
            /\ k \in DOMAIN buckets'
            /\ buckets'[k].tokens =
                 Min(buckets[k].tokens
                       + (NowSeconds - buckets[k].lastFill) * rlConfig.Rate,
                     rlConfig.BurstSize * OneToken)
    ]_vars

\* C32 witness: a denied Allow has left a bucket that holds a part of a
\* token gained by a refill.
C32_Witness ==
  /\ limLast.op = "Allow" /\ ~limLast.ok
  /\ limLast.key \in DOMAIN buckets
  /\ buckets[limLast.key].tokens > 0
  /\ buckets[limLast.key].lastFill = NowSeconds

\* C33: with key type USER_ID the requests of distinct users draw from
\* distinct buckets, so what other users do never changes a user's
\* admission: in particular the first request a user makes finds a full
\* bucket and is admitted. With GLOBAL every request draws from the one
\* bucket "global".
C33_UsersHaveOwnBuckets ==
  /\ (keyType = "USER_ID" /\ limLast.op = "Allow" /\ limLast.first) => limLast.ok
  /\ (keyType = "GLOBAL" /\ limLast.op = "Allow") => limLast.key = "global"

\* C38: after any sequence of Allow and AllowN(n) calls with n >= 0, every
\* bucket's token count is within 0..capacity.
C38_TokensWithinCapacity ==
  \A k \in DOMAIN buckets :
    /\ buckets[k].tokens >= 0
    /\ buckets[k].tokens <= rlConfig.BurstSize * OneToken

\* C38 witness: after time has passed, an AllowN of two tokens was admitted
\* and has emptied the bucket.
C38_Witness ==
  /\ limLast.op = "AllowN" /\ limLast.n = 2 /\ limLast.ok
  /\ now > 1
  /\ limLast.key \in DOMAIN buckets
  /\ buckets[limLast.key].tokens = 0
  /\ buckets[limLast.key].lastFill = NowSeconds

\* ---- claims on the health-check policy ----

\* C34: for every enabled health-check policy that
\* HealthCheckConfig.Validate accepts, the resulting timeout is strictly
\* less than the resulting interval, also when one of them was zero and has
\* been replaced by its default.
C34_TimeoutBelowInterval ==
  (valResult = "ok" /\ valCfg.Enabled) => valCfg.Timeout < valCfg.Interval

\* ---- claims on the health checker's workers and its mutex ----

\* C35: after the checker's context is cancelled or Stop is called, every
\* health-check worker eventually exits and starts no further probe round.
\* The formula states the second half: once the context is cancelled, no
\* worker enters performHealthCheck.
C35_NoProbeRoundAfterCancel ==
  [][ hcCtx = "cancelled" =>
        \A b \in HCBackends : hcPc'[b] = "probing" => hcPc[b] = "probing"
    ]_vars

\* C37: every read and write of the checker's status map and of the
\* HealthStatus records in it happens while the checker's mutex is held.
\* The formula states it for the writes: a step that changes the map or a
\* record in it is taken by the goroutine that holds the mutex, which is a
\* worker inside performHealthCheck.
C37_StatusWritesHoldMutex ==
  [][ statuses' # statuses => \E b \in HCBackends : hcPc[b] = "probing" ]_vars

\* ---- claims on Router.Reload ----

\* C36: no request observes a partially installed configuration. Unless a
\* Reload has failed, every backend lookup of a request handler sees either
\* the complete backend set from before the reload or the complete backend
\* set of the new configuration.
C36_LookupSeesCompleteSet ==
  (rdSeen.op = "getBackend" /\ ~rdSeen.afterFailed) =>
    \/ \E bs \in InitialBackends : rdSeen.backends = Installed(bs)
    \/ rdSeen.backends = Installed(cfgBackends)

\* C36 witness: after a successful Reload of a configuration with two
\* backends, a lookup has seen the new set, which differs from the old one.
C36_Witness ==
  /\ rdSeen.op = "getBackend" /\ ~rdSeen.afterFailed
  /\ reloadOK
  /\ Len(cfgBackends) = 2
  /\ rdSeen.backends = Installed(cfgBackends)
  /\ \A bs \in InitialBackends : rdSeen.backends # Installed(bs)

\* ---- claims on RateLimiter.getBucket ----

\* C39: under any interleaving of concurrent first requests for the same
\* key, getBucket creates exactly one bucket for that key and every one of
\* those requests draws from it.
C39_OneBucketPerKey ==
  /\ \A k \in Keys : gbCreated[k] <= 1
  /\ \A g \in Goroutines :
       gbReq[g].pc \in { "has", "done" } =>
         /\ gbReq[g].held = gbBuckets[gbReq[g].key]
         /\ gbCreated[gbReq[g].key] = 1

\* C39 witness: both goroutines made a first request for the same key, both
\* missed the bucket in their first look, and both have drawn.
C39_Witness ==
  \E k \in Keys :
    /\ \A g \in Goroutines :
         gbReq[g].pc = "done" /\ gbReq[g].key = k /\ gbReq[g].missed
    /\ gbCreated[k] = 1

====
